---------------------------- MODULE Spec2Model ----------------------------
(***************************************************************************)
(* Scene camera geometry and navigation graph of pointcloud-builder-and-   *)
(* viewer: pose decomposition and the spatial candidate pool               *)
(* (hooks/useSceneData.ts), the left/right navigation graph                *)
(* (lib/navGraph.ts), the projector and the NPY decoder (lib/npy.ts).      *)
(*                                                                         *)
(* Numbers.  A JavaScript number is a record [fin, v]: a finite value v    *)
(* (an integer: every input of the model is integer valued, and sums and   *)
(* products of integers are exact in binary64 at this size), or one of     *)
(* NaN, +Infinity, -Infinity with IEEE-754 arithmetic on them.  A distance *)
(* Math.sqrt(s) / Math.hypot(..) is carried as its square s: sqrt is       *)
(* strictly increasing on the non-negative values, so every comparison the *)
(* code makes between distances, with zero and with the radius is kept.    *)
(***************************************************************************)
EXTENDS Integers, Sequences, FiniteSets, TLC

VARIABLES
    pc,                  \* position of the scenario being run
    extrinsicsMatrices,  \* decoded [R | t] records, one per camera
    intrinsicsMatrices,  \* decoded K records, one per camera
    radius,              \* buildNavigationGraph's radius argument
    maxNeighbors,        \* buildNavigationGraph's maxNeighbors argument
    cameras,             \* the SceneCamera list of sceneData
    navGraph,            \* the NavGraph returned by buildNavGraph
    worldPoint,          \* projectWorldPointToImage's worldPoint argument
    projection,          \* the value projectWorldPointToImage returned
    ray,                 \* the ray handleImageClick handed to onRaycast
    npyArray,            \* the array a producer wrote to a file
    buffer,              \* the bytes handed to parseNpy
    parsed,              \* what parseNpy returned or threw
    layout,              \* how the bytes of a file on disk were laid out
    reshaped,            \* what reshapeMatrices returned or threw
    poseResult,          \* what loadPoseEncodings came to
    scenePath,           \* useSceneData: the path of the effect that ran last
    loads,               \* useSceneData: the loads started, in order
    state,               \* useSceneData: the hook's state
    onDisk,              \* useSceneData: what the current load found on disk
    writer,              \* useSceneData: the load whose setState came last
    sceneData,           \* useNavGraph: the argument of the latest call
    navState,            \* useNavGraph: the hook's state, navGraph and ready
    effectDue,           \* useNavGraph: the effect of the latest call is due
    observed             \* useNavGraph: what the latest call returned

sceneVars == <<extrinsicsMatrices, intrinsicsMatrices, radius, maxNeighbors,
               cameras, navGraph, worldPoint, projection, ray>>
npyVars == <<npyArray, buffer, parsed, layout, reshaped, poseResult>>

hookVars == <<scenePath, loads, state, onDisk, writer>>

navHookVars == <<sceneData, navState, effectDue, observed>>

vars == <<pc, sceneVars, npyVars, hookVars, navHookVars>>

---------------------------------------------------------------------------
(* JavaScript numbers *)

Num(n) == [fin |-> TRUE, v |-> n]
NaN == [fin |-> FALSE, v |-> 0]
PosInf == [fin |-> FALSE, v |-> 1]
NegInf == [fin |-> FALSE, v |-> -1]

Sgn(n) == IF n > 0 THEN 1 ELSE IF n < 0 THEN -1 ELSE 0
AbsInt(n) == IF n < 0 THEN -n ELSE n

IsFinite(a) == a.fin
IsNaN(a) == ~a.fin /\ a.v = 0

FNeg(a) == [a EXCEPT !.v = -a.v]
FAbs(a) == [a EXCEPT !.v = AbsInt(a.v)]

FAdd(a, b) ==
    IF a.fin /\ b.fin THEN Num(a.v + b.v)
    ELSE IF IsNaN(a) \/ IsNaN(b) THEN NaN
    ELSE IF a.fin THEN b
    ELSE IF b.fin THEN a
    ELSE IF a.v = b.v THEN a ELSE NaN

FSub(a, b) == FAdd(a, FNeg(b))

FMul(a, b) ==
    IF a.fin /\ b.fin THEN Num(a.v * b.v)
    ELSE IF IsNaN(a) \/ IsNaN(b) THEN NaN
    ELSE IF Sgn(a.v) = 0 \/ Sgn(b.v) = 0 THEN NaN
    ELSE IF Sgn(a.v) * Sgn(b.v) > 0 THEN PosInf ELSE NegInf

\* a < b and a <= b; every comparison with NaN is false
FLt(a, b) ==
    IF IsNaN(a) \/ IsNaN(b) THEN FALSE
    ELSE IF a.fin /\ b.fin THEN a.v < b.v
    ELSE IF a.fin THEN b.v > 0
    ELSE IF b.fin THEN a.v < 0
    ELSE a.v < b.v

FLe(a, b) ==
    IF IsNaN(a) \/ IsNaN(b) THEN FALSE
    ELSE IF a.fin /\ b.fin THEN a.v <= b.v
    ELSE IF a.fin THEN b.v > 0
    ELSE IF b.fin THEN a.v < 0
    ELSE a.v <= b.v

\* a === b
FEq(a, b) == ~IsNaN(a) /\ ~IsNaN(b) /\ a = b

Zero == Num(0)
One == Num(1)

\* a*x + b*y + c*z, summed left to right
Dot3(a, b, c, x, y, z) == FAdd(FAdd(FMul(a, x), FMul(b, y)), FMul(c, z))

---------------------------------------------------------------------------
(* Pose decomposition *)

\* mutant of matrixTranspose: the matrix returned as it is
matrixUntransposed(matrix) ==
    [r \in 1..3 |-> [c \in 1..3 |-> matrix[r][c]]]

matrixTranspose(matrix) ==
    [c \in 1..3 |-> [r \in 1..3 |-> matrix[r][c]]]

\* positionWorld uses the transpose as written in the source
positionFromRows(rotationC2W, translationW2C) ==
    [i \in 1..3 |->
        FNeg(Dot3(rotationC2W[i][1], rotationC2W[i][2], rotationC2W[i][3],
                  translationW2C[1], translationW2C[2], translationW2C[3]))]

decomposeExtrinsicsW2C(matrix) ==
    LET rotationW2C == [r \in 1..3 |-> [c \in 1..3 |-> matrix[r][c]]]
        translationW2C == [r \in 1..3 |-> matrix[r][4]]
        rotationC2W == matrixTranspose(rotationW2C)
        positionWorld == positionFromRows(rotationC2W, translationW2C)
    IN  [rotationW2C |-> rotationW2C,
         translationW2C |-> translationW2C,
         extrinsicsW2C |->
            [r \in 1..3 |-> [c \in 1..4 |->
                IF c <= 3 THEN rotationW2C[r][c] ELSE translationW2C[r]]],
         rotationC2W |-> rotationC2W,
         positionWorld |-> positionWorld,
         extrinsicsC2W |->
            [r \in 1..3 |-> [c \in 1..4 |->
                IF c <= 3 THEN rotationC2W[r][c] ELSE positionWorld[r]]]]

INTRINSIC_MIN_FOCAL == 50

\* a sanitizer that lifts a focal length that is not finite or below the
\* minimum to the minimum
sanitizeIntrinsicsClamped(matrix) ==
    [r \in 1..Len(matrix) |-> [c \in 1..Len(matrix[r]) |->
        IF r = c /\ r <= 2 /\ ~(IsFinite(matrix[r][c])
                                /\ matrix[r][c].v >= INTRINSIC_MIN_FOCAL)
        THEN Num(INTRINSIC_MIN_FOCAL) ELSE matrix[r][c]]]

\* K is copied, never altered; the focal-length check only logs
sanitizeIntrinsics(matrix) == matrix

---------------------------------------------------------------------------
(* Phase A: the spatial candidate pool, buildNavigationGraph *)

NAV_GRAPH_RADIUS == 5
NAV_GRAPH_NEIGHBORS == 6

\* the square of Math.sqrt(dx*dx + dy*dy + dz*dz) between two positions
distanceSq(positionA, positionB) ==
    LET dx == FSub(positionB[1], positionA[1])
        dy == FSub(positionB[2], positionA[2])
        dz == FSub(positionB[3], positionA[3])
    IN  FAdd(FAdd(FMul(dx, dx), FMul(dy, dy)), FMul(dz, dz))

\* mutant of usableDistance: the zero test dropped
usableDistanceNoZero(dSq) == IsFinite(dSq)

\* not (!Number.isFinite(distance) || distance === 0)
usableDistance(dSq) == IsFinite(dSq) /\ ~FEq(dSq, Zero)

\* the inner loop over j: every other camera at a usable distance, in index order
RECURSIVE collectCandidates(_, _, _)
collectCandidates(cams, i, j) ==
    IF j > Len(cams) THEN <<>>
    ELSE LET rest == collectCandidates(cams, i, j + 1)
             dSq == distanceSq(cams[i].positionWorld, cams[j].positionWorld)
         IN  IF i = j THEN rest
             ELSE IF ~usableDistance(dSq) THEN rest
             ELSE <<[index |-> cams[j].index, distance |-> dSq]>> \o rest

\* the comparator (a, b) => a.distance - b.distance, by its sign
compareDistance(a, b) == Sgn(a.distance.v - b.distance.v)

\* mutant of insertSorted: an element goes in front of its equals
RECURSIVE insertUnstable(_, _)
insertUnstable(sorted, c) ==
    IF sorted = <<>> THEN <<c>>
    ELSE IF compareDistance(c, Head(sorted)) <= 0 THEN <<c>> \o sorted
    ELSE <<Head(sorted)>> \o insertUnstable(Tail(sorted), c)

\* Array.prototype.sort is stable: an element goes behind its equals
RECURSIVE insertSorted(_, _)
insertSorted(sorted, c) ==
    IF sorted = <<>> THEN <<c>>
    ELSE IF compareDistance(c, Head(sorted)) < 0 THEN <<c>> \o sorted
    ELSE <<Head(sorted)>> \o insertSorted(Tail(sorted), c)

RECURSIVE sortCandidates(_)
sortCandidates(cands) ==
    IF cands = <<>> THEN <<>>
    ELSE insertSorted(sortCandidates(SubSeq(cands, 1, Len(cands) - 1)),
                      cands[Len(cands)])

\* candidate.distance <= radius
withinRadius(dSq, r) == r >= 0 /\ dSq.v <= r * r

\* Set.has / Set.add on a set kept in insertion order
setHas(selected, idx) == \E k \in 1..Len(selected) : selected[k] = idx
setAdd(selected, idx) ==
    IF setHas(selected, idx) THEN selected ELSE Append(selected, idx)

\* first loop: accept what lies within the radius, stop at the cap
RECURSIVE acceptWithinRadius(_, _, _, _, _)
acceptWithinRadius(cands, k, selected, r, cap) ==
    IF k > Len(cands) THEN selected
    ELSE LET next == IF withinRadius(cands[k].distance, r)
                     THEN setAdd(selected, cands[k].index) ELSE selected
         IN  IF Len(next) >= cap THEN next
             ELSE acceptWithinRadius(cands, k + 1, next, r, cap)

\* second loop: fill up with the next nearest candidates
RECURSIVE fillBeyondRadius(_, _, _, _)
fillBeyondRadius(cands, k, selected, cap) ==
    IF k > Len(cands) THEN selected
    ELSE IF setHas(selected, cands[k].index)
         THEN fillBeyondRadius(cands, k + 1, selected, cap)
    ELSE LET next == setAdd(selected, cands[k].index)
         IN  IF Len(next) >= cap THEN next
             ELSE fillBeyondRadius(cands, k + 1, next, cap)

\* mutant of selectNeighbors: the second loop left out
selectWithinRadius(cands, r, cap) == acceptWithinRadius(cands, 1, <<>>, r, cap)

selectNeighbors(cands, r, cap) ==
    LET selected == acceptWithinRadius(cands, 1, <<>>, r, cap)
    IN  IF Len(selected) < cap
        THEN fillBeyondRadius(cands, 1, selected, cap)
        ELSE selected

sortedCandidates(cams, i) == sortCandidates(collectCandidates(cams, i, 1))

buildNavigationGraph(cams, r, cap) ==
    [i \in 1..Len(cams) |->
        [cams[i] EXCEPT !.navigableNeighbors =
            selectNeighbors(sortedCandidates(cams, i), r, cap)]]

MinInt(a, b) == IF a < b THEN a ELSE b

buildSceneCameras(extr, intr, r, cap) ==
    LET cameraCount == MinInt(Len(extr), Len(intr))
        built == [i \in 1..cameraCount |->
            LET d == decomposeExtrinsicsW2C(extr[i])
            IN  [index |-> i - 1,
                 extrinsicsW2C |-> d.extrinsicsW2C,
                 rotationW2C |-> d.rotationW2C,
                 rotationC2W |-> d.rotationC2W,
                 positionWorld |-> d.positionWorld,
                 extrinsicsC2W |-> d.extrinsicsC2W,
                 intrinsics |-> sanitizeIntrinsics(intr[i]),
                 navigableNeighbors |-> <<>>]]
    IN  buildNavigationGraph(built, r, cap)

---------------------------------------------------------------------------
(* Phase B: left/right classification, buildNavGraph *)

\* an absent left / right of a NavPair
Undefined == -1

\* 1e-6 is 1 / DEGENERATE_INV
DEGENERATE_INV == 1000000

\* Math.abs(camX) < 1e-6
belowEpsilon(a) == a.fin /\ AbsInt(a.v) * DEGENERATE_INV < 1

\* delta of the neighbour in the current camera's frame, row `row` of rotationW2C
camAxis(camera, neighbor, row) ==
    LET dx == FSub(neighbor.positionWorld[1], camera.positionWorld[1])
        dy == FSub(neighbor.positionWorld[2], camera.positionWorld[2])
        dz == FSub(neighbor.positionWorld[3], camera.positionWorld[3])
    IN  Dot3(camera.rotationW2C[row][1], camera.rotationW2C[row][2],
             camera.rotationW2C[row][3], dx, dy, dz)

camXOf(camera, neighbor) == camAxis(camera, neighbor, 1)
camZOf(camera, neighbor) == camAxis(camera, neighbor, 3)

\* not (!Number.isFinite(dist) || dist === 0), dist = Math.hypot(dx, dy, dz)
usableHypot(dSq) == IsFinite(dSq) /\ ~FEq(dSq, Zero)

\* mutant of mostlyBehind: the lateral tie counted as behind
mostlyBehindOrLevel(camX, camZ) == FLe(FAbs(camX), FAbs(camZ)) /\ FLe(camZ, Zero)

\* Math.abs(camX) < Math.abs(camZ) && camZ <= 0
mostlyBehind(camX, camZ) == FLt(FAbs(camX), FAbs(camZ)) /\ FLe(camZ, Zero)

\* mutant of degenerateAlignment: the epsilon test dropped
degenerateNonFinite(camX) == ~IsFinite(camX)

\* !Number.isFinite(camX) || Math.abs(camX) < 1e-6
degenerateAlignment(camX) == ~IsFinite(camX) \/ belowEpsilon(camX)

\* mutant of sideOf: the sides swapped
sideOfSwapped(camX) == IF FLt(Zero, camX) THEN "left" ELSE "right"

\* camX > 0 ? 'right' : 'left'
sideOf(camX) == IF FLt(Zero, camX) THEN "right" ELSE "left"

camHas(cams, idx) == \E k \in 1..Len(cams) : cams[k].index = idx
camByIndex(cams, idx) == cams[CHOOSE k \in 1..Len(cams) : cams[k].index = idx]

\* the loop over navigableNeighbors: the candidates that get a side, in pool order
RECURSIVE classifyNeighbors(_, _, _)
classifyNeighbors(cams, camera, k) ==
    IF k > Len(camera.navigableNeighbors) THEN <<>>
    ELSE LET neighborIndex == camera.navigableNeighbors[k]
             rest == classifyNeighbors(cams, camera, k + 1)
         IN  IF ~camHas(cams, neighborIndex) THEN rest
             ELSE LET neighbor == camByIndex(cams, neighborIndex)
                      dist == distanceSq(camera.positionWorld, neighbor.positionWorld)
                      camX == camXOf(camera, neighbor)
                      camZ == camZOf(camera, neighbor)
                  IN  IF ~usableHypot(dist) THEN rest
                      ELSE IF mostlyBehind(camX, camZ) THEN rest
                      ELSE IF degenerateAlignment(camX) THEN rest
                      ELSE <<[side |-> sideOf(camX), dist |-> dist,
                              idx |-> neighborIndex]>> \o rest

\* mutant of closer: the comparison turned round
closerReversed(c, best) == best = <<>> \/ FLt(best[1].dist, c.dist)

\* !best || c.dist < best.dist
closer(c, best) == best = <<>> \/ FLt(c.dist, best[1].dist)

\* the loop that keeps the closest candidate of one side; best is <<>> or <<c>>
RECURSIVE pickBest(_, _, _, _)
pickBest(cands, side, k, best) ==
    IF k > Len(cands) THEN best
    ELSE IF cands[k].side = side /\ closer(cands[k], best)
         THEN pickBest(cands, side, k + 1, <<cands[k]>>)
    ELSE pickBest(cands, side, k + 1, best)

idxOf(best) == IF best = <<>> THEN Undefined ELSE best[1].idx

\* mutant of navPair: the nearest on the right entered on both sides
navPairMirrored(cams, camera) ==
    LET candidates == classifyNeighbors(cams, camera, 1)
    IN  [left |-> idxOf(pickBest(candidates, "right", 1, <<>>)),
         right |-> idxOf(pickBest(candidates, "right", 1, <<>>))]

navPair(cams, camera) ==
    LET candidates == classifyNeighbors(cams, camera, 1)
    IN  [left |-> idxOf(pickBest(candidates, "left", 1, <<>>)),
         right |-> idxOf(pickBest(candidates, "right", 1, <<>>))]

buildNavGraph(cams) ==
    [idx \in {cams[k].index : k \in 1..Len(cams)} |->
        navPair(cams, camByIndex(cams, idx))]

---------------------------------------------------------------------------
(* Projector: projectWorldPointToImage *)

RECURSIVE GCD(_, _)
GCD(a, b) == IF b = 0 THEN a ELSE GCD(b, a % b)

\* x / w: a quotient in lowest terms [fin, num, den], den > 0, or a non-finite
\* number
FDiv(x, w) ==
    IF IsNaN(x) \/ IsNaN(w) THEN NaN
    ELSE IF ~x.fin /\ ~w.fin THEN NaN
    ELSE IF ~w.fin THEN [fin |-> TRUE, num |-> 0, den |-> 1]
    ELSE IF w.v = 0 THEN
        (IF x.v = 0 THEN NaN ELSE IF x.v > 0 THEN PosInf ELSE NegInf)
    ELSE IF ~x.fin THEN
        (IF Sgn(x.v) * Sgn(w.v) > 0 THEN PosInf ELSE NegInf)
    ELSE LET g == GCD(AbsInt(x.v), AbsInt(w.v))
         IN  [fin |-> TRUE,
              num |-> Sgn(w.v) * (x.v \div g),
              den |-> AbsInt(w.v) \div g]

ProjNull == [kind |-> "null"]

\* row r of [R | t] applied to the point: R[r] . p + t[r]
cameraCoord(extrinsics, p, r) ==
    FAdd(Dot3(extrinsics[r][1], extrinsics[r][2], extrinsics[r][3],
              p[1], p[2], p[3]),
         extrinsics[r][4])

\* row r of K applied to the camera-space point
projectedCoord(intrinsics, x, y, z, r) ==
    Dot3(intrinsics[r][1], intrinsics[r][2], intrinsics[r][3], x, y, z)

\* mutant of depthRejected: a point in the camera plane let through
depthRejectedBehindOnly(cameraZ) == ~IsFinite(cameraZ) \/ FLt(cameraZ, Zero)

\* !Number.isFinite(cameraZ) || cameraZ <= 0
depthRejected(cameraZ) == ~IsFinite(cameraZ) \/ FLe(cameraZ, Zero)

\* !Number.isFinite(projectedW) || projectedW === 0
homogeneousRejected(projectedW) == ~IsFinite(projectedW) \/ FEq(projectedW, Zero)

projectWorldPointToImage(extrinsics, intrinsics, p) ==
    IF Len(extrinsics) < 3 \/ Len(intrinsics) < 3 THEN ProjNull
    ELSE
    LET cameraX == cameraCoord(extrinsics, p, 1)
        cameraY == cameraCoord(extrinsics, p, 2)
        cameraZ == cameraCoord(extrinsics, p, 3)
        projectedX == projectedCoord(intrinsics, cameraX, cameraY, cameraZ, 1)
        projectedY == projectedCoord(intrinsics, cameraX, cameraY, cameraZ, 2)
        projectedW == projectedCoord(intrinsics, cameraX, cameraY, cameraZ, 3)
        u == FDiv(projectedX, projectedW)
        v == FDiv(projectedY, projectedW)
    IN  IF depthRejected(cameraZ) THEN ProjNull
        ELSE IF homogeneousRejected(projectedW) THEN ProjNull
        ELSE IF ~IsFinite(u) \/ ~IsFinite(v) THEN ProjNull
        ELSE [kind |-> "point", u |-> u, v |-> v, z |-> cameraZ]

---------------------------------------------------------------------------
(* Unprojection: StreetViewer.handleImageClick (forge.config.ts), with the
   image shown at its natural size.  A pixel coordinate is a quotient
   [num, den] as projectWorldPointToImage returns it.  The ray direction is
   normalised in the code; it is carried here as a vector of integers that
   points the same way, (x_cam, y_cam, 1) times the two denominators, which
   keeps every test of whether the ray goes through a point. *)

\* (coord - centre) / focal as a quotient with den >= 0
camQuotient(coord, centre, focal) ==
    [num |-> Sgn(focal.v) * (coord.num - centre.v * coord.den),
     den |-> AbsInt(focal.v) * coord.den]

\* lines 428-451: x_cam = (u - cx) / fx, y_cam = (v - cy) / fy, z_cam = 1,
\* turned by the rotation of extrinsicsC2W, from its translation column
unproject(camera, u, v) ==
    LET K == camera.intrinsics
        fx == K[1][1]
        fy == K[2][2]
        cx == K[1][3]
        cy == K[2][3]
        x == camQuotient(u, cx, fx)
        y == camQuotient(v, cy, fy)
        rayDir_cam == <<Num(x.num * y.den), Num(y.num * x.den), Num(x.den * y.den)>>
        C2W == camera.extrinsicsC2W
    IN  [kind |-> "ray",
         origin |-> <<C2W[1][4], C2W[2][4], C2W[3][4]>>,
         direction |->
            IF \/ \E n \in {fx, fy, cx, cy} : ~IsFinite(n)
               \/ fx.v = 0 \/ fy.v = 0
            THEN <<NaN, NaN, NaN>>
            ELSE [r \in 1..3 |->
                    Dot3(C2W[r][1], C2W[r][2], C2W[r][3],
                         rayDir_cam[1], rayDir_cam[2], rayDir_cam[3])]]

---------------------------------------------------------------------------
(* ArrayDecoder: lib/npy.ts.  A buffer is a sequence of bytes 0..255; the
   header text is the sequence of its character codes (latin1: one byte, one
   character). *)

CharCode ==
    "'" :> 39 @@ "(" :> 40 @@ ")" :> 41 @@ "," :> 44 @@ "-" :> 45 @@ "+" :> 43
    @@ ":" :> 58 @@ "<" :> 60 @@ ">" :> 62 @@ "|" :> 124 @@ "{" :> 123
    @@ "}" :> 125 @@ "_" :> 95 @@ " " :> 32 @@ "\n" :> 10
    @@ "0" :> 48 @@ "1" :> 49 @@ "2" :> 50 @@ "3" :> 51 @@ "4" :> 52
    @@ "5" :> 53 @@ "6" :> 54 @@ "7" :> 55 @@ "8" :> 56 @@ "9" :> 57
    @@ "F" :> 70 @@ "T" :> 84 @@ "N" :> 78 @@ "U" :> 85 @@ "M" :> 77
    @@ "P" :> 80 @@ "Y" :> 89
    @@ "a" :> 97 @@ "c" :> 99 @@ "d" :> 100 @@ "e" :> 101 @@ "f" :> 102
    @@ "h" :> 104 @@ "i" :> 105 @@ "l" :> 108 @@ "n" :> 110 @@ "o" :> 111
    @@ "p" :> 112 @@ "r" :> 114 @@ "s" :> 115 @@ "t" :> 116 @@ "u" :> 117
    @@ "x" :> 120 @@ "." :> 46 @@ "=" :> 61 @@ "m" :> 109 @@ "y" :> 121

\* the character codes of a text given as a tuple of one-character strings
Text(chars) == [i \in 1..Len(chars) |-> CharCode[chars[i]]]

\* expectedMagicBytes: \x93NUMPY
MagicBytes == <<147>> \o Text(<<"N", "U", "M", "P", "Y">>)

\* the characters \s matches and trim() strips, among the latin1 bytes
WhiteSpace == {9, 10, 11, 12, 13, 32, 160}

NpyError(what) == [kind |-> "error", error |-> what]

\* whether `lit` stands in `h` at position i
LitAt(h, i, lit) ==
    /\ i + Len(lit) - 1 <= Len(h)
    /\ \A k \in 1..Len(lit) : h[i + k - 1] = lit[k]

\* the first position from i on that holds no white space (Len(h) + 1 if none)
skipSpace(h, i) ==
    CHOOSE j \in i..(Len(h) + 1) :
        /\ j = Len(h) + 1 \/ h[j] \notin WhiteSpace
        /\ \A k \in i..(j - 1) : h[k] \in WhiteSpace

\* the first position from i on that holds the code c (Len(h) + 1 if none)
findCode(h, i, c) ==
    CHOOSE j \in i..(Len(h) + 1) :
        /\ j = Len(h) + 1 \/ h[j] = c
        /\ \A k \in i..(j - 1) : h[k] # c

\* String.prototype.trim
trimEnd(h) ==
    LET last == CHOOSE j \in 0..Len(h) :
                    /\ j = 0 \/ h[j] \notin WhiteSpace
                    /\ \A k \in (j + 1)..Len(h) : h[k] \in WhiteSpace
    IN  SubSeq(h, 1, last)
trim(h) == LET t == trimEnd(h) IN SubSeq(t, skipSpace(t, 1), Len(t))

\* String.prototype.includes
includes(h, lit) == \E i \in 1..Len(h) : LitAt(h, i, lit)

\* 'key'\s*:\s*  standing at i: the position behind it, or 0
keyAt(h, i, key) ==
    IF ~LitAt(h, i, key) THEN 0
    ELSE LET colon == skipSpace(h, i + Len(key))
         IN  IF colon <= Len(h) /\ h[colon] = CharCode[":"]
             THEN skipSpace(h, colon + 1) ELSE 0

DescrKey == Text(<<"'", "d", "e", "s", "c", "r", "'">>)
FortranKey ==
    Text(<<"'", "f", "o", "r", "t", "r", "a", "n", "_", "o", "r", "d", "e", "r", "'">>)
ShapeKey == Text(<<"'", "s", "h", "a", "p", "e", "'">>)
TrueText == Text(<<"T", "r", "u", "e">>)
FalseText == Text(<<"F", "a", "l", "s", "e">>)

\* /'descr'\s*:\s*'([^']+)'/ at i: <<capture>>, or <<>> when it does not match
descrAt(h, i) ==
    LET v == keyAt(h, i, DescrKey)
        close == findCode(h, v + 1, CharCode["'"])
    IN  IF v = 0 \/ v > Len(h) \/ h[v] # CharCode["'"] THEN <<>>
        ELSE IF close > Len(h) \/ close = v + 1 THEN <<>>
        ELSE <<SubSeq(h, v + 1, close - 1)>>

\* /'fortran_order'\s*:\s*(True|False)/ at i
fortranAt(h, i) ==
    LET v == keyAt(h, i, FortranKey)
    IN  IF v = 0 THEN <<>>
        ELSE IF LitAt(h, v, TrueText) THEN <<TrueText>>
        ELSE IF LitAt(h, v, FalseText) THEN <<FalseText>>
        ELSE <<>>

\* /'shape'\s*:\s*\(([^)]*)\)/ at i
shapeAt(h, i) ==
    LET v == keyAt(h, i, ShapeKey)
        close == findCode(h, v + 1, CharCode[")"])
    IN  IF v = 0 \/ v > Len(h) \/ h[v] # CharCode["("] THEN <<>>
        ELSE IF close > Len(h) THEN <<>>
        ELSE <<SubSeq(h, v + 1, close - 1)>>

\* String.prototype.match without the g flag: the leftmost match
firstDescr(h, i) ==
    LET found == {j \in i..Len(h) : descrAt(h, j) # <<>>}
    IN  IF found = {} THEN <<>>
        ELSE descrAt(h, CHOOSE j \in found : \A k \in found : j <= k)
firstFortran(h, i) ==
    LET found == {j \in i..Len(h) : fortranAt(h, j) # <<>>}
    IN  IF found = {} THEN <<>>
        ELSE fortranAt(h, CHOOSE j \in found : \A k \in found : j <= k)
firstShape(h, i) ==
    LET found == {j \in i..Len(h) : shapeAt(h, j) # <<>>}
    IN  IF found = {} THEN <<>>
        ELSE shapeAt(h, CHOOSE j \in found : \A k \in found : j <= k)

\* String.prototype.split(','): the parts between the commas
RECURSIVE splitComma(_)
splitComma(t) ==
    LET comma == findCode(t, 1, CharCode[","])
    IN  IF comma > Len(t) THEN <<t>>
        ELSE <<SubSeq(t, 1, comma - 1)>> \o splitComma(SubSeq(t, comma + 1, Len(t)))

Digits == {CharCode[d] : d \in {"0", "1", "2", "3", "4", "5", "6", "7", "8", "9"}}

\* the value of the leading digits of t from i on, given the value so far
RECURSIVE digitsValue(_, _, _)
digitsValue(t, i, acc) ==
    IF i <= Len(t) /\ t[i] \in Digits
    THEN digitsValue(t, i + 1, acc * 10 + (t[i] - CharCode["0"]))
    ELSE acc

\* Number.parseInt(value, 10) of a trimmed text: sign, leading digits, NaN
\* when there is no digit
parseInt10(t) ==
    LET signed == t # <<>> /\ t[1] \in {CharCode["-"], CharCode["+"]}
        from == IF signed THEN 2 ELSE 1
    IN  IF from > Len(t) \/ t[from] \notin Digits THEN NaN
        ELSE IF signed /\ t[1] = CharCode["-"]
             THEN Num(-digitsValue(t, from, 0))
        ELSE Num(digitsValue(t, from, 0))

\* .split(',').map(trim).filter(Boolean).map(parseInt)
shapeValuesOf(t) ==
    LET parts == [k \in 1..Len(splitComma(t)) |-> trim(splitComma(t)[k])]
        kept == SelectSeq(parts, LAMBDA part : part # <<>>)
    IN  [k \in 1..Len(kept) |-> parseInt10(kept[k])]

OneTuple == Text(<<"(", "1", ",", ")">>)

\* the (1,) rule of parseHeader: a lone 1 becomes [1, 1]
padSingleton(shapeValues, h) ==
    IF Len(shapeValues) = 1 /\ includes(h, OneTuple)
    THEN Append(shapeValues, One) ELSE shapeValues

parseHeader(h) ==
    LET descrMatch == firstDescr(h, 1)
        fortranMatch == firstFortran(h, 1)
        shapeMatch == firstShape(h, 1)
    IN  IF descrMatch = <<>> \/ fortranMatch = <<>> \/ shapeMatch = <<>>
        THEN NpyError("Unable to parse NPY header")
        ELSE [kind |-> "ok",
              descr |-> descrMatch[1],
              fortranOrder |-> (fortranMatch[1] = TrueText),
              shape |-> padSingleton(shapeValuesOf(shapeMatch[1]), h)]

\* the two bytes read high byte first
getUint16BigEndian(b, at) == 256 * b[at + 1] + b[at + 2]

\* DataView.getUint16(8, true)
getUint16(b, at) == b[at + 1] + 256 * b[at + 2]

\* whether `new Uint8Array(buffer, offset, headerLen)` runs past the buffer,
\* headerLen being the little-endian count of `width` bytes at byte 8; a set
\* byte above the second one puts the count beyond every buffer that fits
\* in memory here
headerOverruns(b, offset, width) ==
    \/ \E k \in 3..width : b[8 + k] # 0
    \/ offset + getUint16(b, 8) > Len(b)

\* readHeader: signature, version, header length, header text
readHeader(b) ==
    IF Len(b) < 6 THEN NpyError("RangeError")
    ELSE IF SubSeq(b, 1, 6) # MagicBytes
    THEN NpyError("Invalid NPY file signature")
    ELSE IF Len(b) < 8 THEN NpyError("RangeError")
    ELSE LET major == b[7]
             width == IF major = 1 THEN 2 ELSE 4
             offset == 8 + width
         IN  IF major \notin {1, 2} THEN NpyError("Unsupported NPY version")
             ELSE IF Len(b) < offset THEN NpyError("RangeError")
             ELSE IF headerOverruns(b, offset, width) THEN NpyError("RangeError")
             ELSE LET headerLen == getUint16(b, 8)
                  IN  [kind |-> "ok",
                       header |-> trim(SubSeq(b, offset + 1, offset + headerLen)),
                       offset |-> offset + headerLen]

\* new Float32Array(buffer, offset) / new Float64Array(buffer, offset): the
\* elements as groups of `size` bytes, or the RangeError of a misaligned
\* offset or remainder
typedArray(b, offset, size) ==
    IF offset % size # 0 \/ offset > Len(b) \/ (Len(b) - offset) % size # 0
    THEN NpyError("RangeError")
    ELSE [kind |-> "ok",
          data |-> [k \in 1..((Len(b) - offset) \div size) |->
                      SubSeq(b, offset + (k - 1) * size + 1, offset + k * size)]]

\* the float32 descriptors with the big-endian one among them
Float32DescrsAnyOrder ==
    {Text(<<"<", "f", "4">>), Text(<<"|", "f", "4">>), Text(<<"<", "f">>),
     Text(<<">", "f", "4">>)}

Float32Descrs == {Text(<<"<", "f", "4">>), Text(<<"|", "f", "4">>), Text(<<"<", "f">>)}
Float64Descrs == {Text(<<"<", "f", "8">>), Text(<<"|", "f", "8">>)}

\* parseNpy with the dtype test ahead of the layout test
parseNpyDtypeFirst(b) ==
    LET read == readHeader(b)
        head == parseHeader(read.header)
        data == typedArray(b, read.offset,
                           IF head.descr \in Float32Descrs THEN 4 ELSE 8)
    IN  IF read.kind # "ok" THEN read
        ELSE IF head.kind # "ok" THEN head
        ELSE IF head.descr \notin Float32Descrs \cup Float64Descrs
        THEN NpyError("Unsupported dtype")
        ELSE IF head.fortranOrder
        THEN NpyError("Fortran-ordered NPY arrays are not supported")
        ELSE IF data.kind # "ok" THEN data
        ELSE [kind |-> "ok", dtype |-> head.descr,
              fortranOrder |-> head.fortranOrder,
              shape |-> head.shape, data |-> data.data]

\* lines 137-142: the result
npyResult(head, data) ==
    IF data.kind # "ok" THEN data
    ELSE [kind |-> "ok", dtype |-> head.descr,
          fortranOrder |-> head.fortranOrder,
          shape |-> head.shape, data |-> data.data]

\* lines 123-135: the layout test, then the view by dtype
viewOf(b, offset, head) ==
    IF head.kind # "ok" THEN head
    ELSE IF head.fortranOrder
    THEN NpyError("Fortran-ordered NPY arrays are not supported")
    ELSE IF head.descr \notin Float32Descrs \cup Float64Descrs
    THEN NpyError("Unsupported dtype")
    ELSE npyResult(head, typedArray(b, offset,
                          IF head.descr \in Float32Descrs THEN 4 ELSE 8))

\* line 121: the fields of the header that was read
fieldsOf(b, read) ==
    IF read.kind # "ok" THEN read
    ELSE viewOf(b, read.offset, parseHeader(read.header))

parseNpy(b) == fieldsOf(b, readHeader(b))

---------------------------------------------------------------------------
(* Matrix records: reshapeMatrix / reshapeMatrices of hooks/useSceneData.ts.
   The elements of a typed array are taken as they are; reading behind the
   end of a typed array gives undefined. *)

undefined == <<>>

\* data[at], at counted from 0
elementAt(data, at) == IF at < Len(data) THEN data[at + 1] ELSE undefined

reshapeMatrix(data, index, rows, cols) ==
    LET stride == rows * cols
        offset == index * stride
    IN  [r \in 1..rows |->
            [c \in 1..cols |-> elementAt(data, offset + (r - 1) * cols + (c - 1))]]

\* the number of passes of `for (i = 0; i < length / stride; i += 1)`
passes(length, stride) == (length + stride - 1) \div stride

reshapeMatrices(data, shape, rows, cols) ==
    IF Len(shape) < 2
    THEN [kind |-> "error", error |-> "Unexpected NPY shape for matrix data"]
    ELSE [kind |-> "ok",
          matrices |-> [i \in 1..passes(Len(data), rows * cols) |->
                           reshapeMatrix(data, i - 1, rows, cols)]]

---------------------------------------------------------------------------
(* The producer's side of the container format: how an array is laid out in
   a file (magic, version, little-endian header length, a dictionary literal
   padded with spaces and closed by a newline so that the payload starts on
   an ARRAY_ALIGN boundary, then the elements in row-major order). *)

ARRAY_ALIGN == 64

\* the decimal digits of a natural number
RECURSIVE decimal(_)
decimal(n) ==
    IF n < 10 THEN <<CharCode["0"] + n>>
    ELSE decimal(n \div 10) \o <<CharCode["0"] + (n % 10)>>

\* the dimensions separated by ", "
RECURSIVE joinDims(_)
joinDims(shape) ==
    IF Len(shape) = 1 THEN decimal(shape[1])
    ELSE decimal(shape[1]) \o Text(<<",", " ">>) \o joinDims(Tail(shape))

\* a shape written as a tuple literal: (), (n,), (a, b), ...
shapeText(shape) ==
    IF shape = <<>> THEN Text(<<"(", ")">>)
    ELSE IF Len(shape) = 1
    THEN Text(<<"(">>) \o decimal(shape[1]) \o Text(<<",", ")">>)
    ELSE Text(<<"(">>) \o joinDims(shape) \o Text(<<")">>)

\* {'descr': '<f4', 'fortran_order': False, 'shape': (3, 4), }
headerText(descr, shape) ==
    Text(<<"{">>) \o DescrKey \o Text(<<":", " ", "'">>) \o descr
    \o Text(<<"'", ",", " ">>) \o FortranKey \o Text(<<":", " ">>) \o FalseText
    \o Text(<<",", " ">>) \o ShapeKey \o Text(<<":", " ">>) \o shapeText(shape)
    \o Text(<<",", " ", "}">>)

\* the bytes of all elements, one after the other
RECURSIVE flatten(_)
flatten(data) == IF data = <<>> THEN <<>> ELSE Head(data) \o flatten(Tail(data))

\* a count as `width` little-endian bytes
littleEndian(n, width) == [k \in 1..width |-> (n \div (256 ^ (k - 1))) % 256]

EncodeNpy(array, major) ==
    LET width == IF major = 1 THEN 2 ELSE 4
        text == headerText(array.dtype, array.shape)
        padLen == ARRAY_ALIGN - ((8 + width + Len(text) + 1) % ARRAY_ALIGN)
        header == text \o [k \in 1..padLen |-> CharCode[" "]] \o Text(<<"\n">>)
    IN  MagicBytes \o <<major, 0>> \o littleEndian(Len(header), width)
        \o header \o flatten(array.data)

---------------------------------------------------------------------------
(* Inputs of the scenarios *)

MaxCams == 3
MaxCap == 2
SmallRadius == 1

Vec(x, y, z) == <<Num(x), Num(y), Num(z)>>

Identity == <<Vec(1, 0, 0), Vec(0, 1, 0), Vec(0, 0, 1)>>
\* a quarter turn about the camera's Y axis: camera X is world -Z
QuarterTurn == <<Vec(0, 0, -1), Vec(0, 1, 0), Vec(1, 0, 0)>>

Extrinsic(R, t) == [r \in 1..3 |-> <<R[r][1], R[r][2], R[r][3], t[r]>>]

Pinhole == <<Vec(100, 0, 50), Vec(0, 100, 50), Vec(0, 0, 1)>>

\* With R = I the camera stands at -t: the origin, one step right, ahead and
\* back of it, one place behind and left of it, and a non-finite pose.
NavTranslations ==
    { Vec(0, 0, 0), Vec(-1, 0, 0), Vec(0, 0, -1), Vec(0, 0, 1),
      Vec(1, 0, 2), <<PosInf, Zero, Zero>> }

NavExtrinsics ==
    { Extrinsic(Identity, t) : t \in NavTranslations }
        \cup { Extrinsic(QuarterTurn, Vec(0, 0, 0)) }

Radii == { SmallRadius, NAV_GRAPH_RADIUS }
NeighborCaps == { 0, 1, MaxCap, NAV_GRAPH_NEIGHBORS }

NoPoint == <<>>
NoArray == [dtype |-> "none", shape |-> <<>>, data |-> <<>>]
NotParsed == [kind |-> "uncalled"]

\* no file is being decoded
NoLayout == [kind |-> "none"]

\* JavaScript null, where a path or a message may stand
null == "null"
\* SceneDataState.data when it is null, and what a load has not yet found
NoData == [kind |-> "null"]
NothingFound == [kind |-> "unread"]
\* INITIAL_STATE
INITIAL_STATE == [data |-> NoData, loading |-> FALSE, error |-> null]

\* a NavGraph | null
NoGraph == [kind |-> "null"]
\* useNavGraph before its first call
NotCalled == [kind |-> "uncalled"]
NavHookIdle ==
    /\ sceneData = NoData
    /\ navState = [navGraph |-> NoGraph, ready |-> FALSE]
    /\ effectDue = FALSE
    /\ observed = NotCalled

\* no hook is mounted
HooksIdle ==
    /\ scenePath = null /\ loads = <<>> /\ state = INITIAL_STATE
    /\ onDisk = NothingFound /\ writer = 0
    /\ NavHookIdle
NpyIdle ==
    /\ npyArray = NoArray /\ buffer = <<>> /\ parsed = NotParsed
    /\ layout = NoLayout /\ reshaped = NotParsed /\ poseResult = NotParsed
NoProjection == [kind |-> "uncalled"]
NoRay == [kind |-> "uncalled"]

---------------------------------------------------------------------------
(* Scene build followed by the navigation graph build *)

Init ==
    /\ pc = "loaded"
    /\ \E n \in 1..MaxCams :
        /\ extrinsicsMatrices \in [1..n -> NavExtrinsics]
        /\ intrinsicsMatrices = [i \in 1..n |-> Pinhole]
    /\ radius \in Radii
    /\ maxNeighbors \in NeighborCaps
    /\ cameras = <<>>
    /\ navGraph = <<>>
    /\ worldPoint = NoPoint
    /\ projection = NoProjection
    /\ ray = NoRay
    /\ NpyIdle
    /\ HooksIdle

\* useSceneData's load: the cameras of the decoded records, pools included
BuildSceneCameras ==
    /\ pc = "loaded"
    /\ cameras' = buildSceneCameras(extrinsicsMatrices, intrinsicsMatrices,
                                    radius, maxNeighbors)
    /\ pc' = "cameras"
    /\ UNCHANGED <<extrinsicsMatrices, intrinsicsMatrices, radius, maxNeighbors,
                   navGraph, worldPoint, projection, ray>>
    /\ UNCHANGED npyVars
    /\ UNCHANGED hookVars
    /\ UNCHANGED navHookVars

\* useNavGraph's compute: the graph of the published cameras
BuildNavGraph ==
    /\ pc = "cameras"
    /\ navGraph' = buildNavGraph(cameras)
    /\ pc' = "graph"
    /\ UNCHANGED <<extrinsicsMatrices, intrinsicsMatrices, radius, maxNeighbors,
                   cameras, worldPoint, projection, ray>>
    /\ UNCHANGED npyVars
    /\ UNCHANGED hookVars
    /\ UNCHANGED navHookVars

Next == BuildSceneCameras \/ BuildNavGraph

Spec == Init /\ [][Next]_vars

---------------------------------------------------------------------------
(* The vocabulary of the properties, stated on the published cameras *)

CamIdx == {cameras[k].index : k \in 1..Len(cameras)}
Cam(idx) == cameras[idx + 1]
PoolOf(idx) ==
    {Cam(idx).navigableNeighbors[k] : k \in 1..Len(Cam(idx).navigableNeighbors)}

\* world-space displacement from camera a to camera b, and its squared length
Delta(a, b) ==
    [c \in 1..3 |-> FSub(Cam(b).positionWorld[c], Cam(a).positionWorld[c])]
GapSq(a, b) ==
    LET d == Delta(a, b)
    IN  FAdd(FAdd(FMul(d[1], d[1]), FMul(d[2], d[2])), FMul(d[3], d[3]))

\* a's distance to b is finite and not zero
Apart(a, b) == LET g == GapSq(a, b) IN g.fin /\ g.v > 0

\* the displacement along a's right (X) and forward (Z) axis
Lateral(a, b) ==
    LET d == Delta(a, b)
        row == Cam(a).rotationW2C[1]
    IN  FAdd(FAdd(FMul(row[1], d[1]), FMul(row[2], d[2])), FMul(row[3], d[3]))
Forward(a, b) ==
    LET d == Delta(a, b)
        row == Cam(a).rotationW2C[3]
    IN  FAdd(FAdd(FMul(row[1], d[1]), FMul(row[2], d[2])), FMul(row[3], d[3]))

\* "mostly behind": |camX| < |camZ| and camZ <= 0
Behind(a, b) ==
    LET x == Lateral(a, b)
        z == Forward(a, b)
    IN  x.fin /\ z.fin /\ AbsInt(x.v) < AbsInt(z.v) /\ z.v <= 0

\* camX >= 1e-6, camX <= -1e-6
LateralRight(a, b) ==
    LET x == Lateral(a, b) IN x.fin /\ x.v * DEGENERATE_INV >= 1
LateralLeft(a, b) ==
    LET x == Lateral(a, b) IN x.fin /\ x.v * DEGENERATE_INV <= -1

\* the pool members that qualify for a side of a
Qualifying(a, side) ==
    {b \in PoolOf(a) :
        /\ Apart(a, b)
        /\ ~Behind(a, b)
        /\ IF side = "left" THEN LateralLeft(a, b) ELSE LateralRight(a, b)}

SideOfPair(pair, side) == IF side = "left" THEN pair.left ELSE pair.right
Sides == {"left", "right"}

Built == pc \in {"cameras", "graph"}
GraphBuilt == pc = "graph"

---------------------------------------------------------------------------
(* C1: after buildSceneCameras and buildNavGraph, each side of every camera
   holds a pool member that survives both rejection tests, lies on that side
   and is nearest among all such members; a side is absent exactly when no
   pool member qualifies for it. *)
C1_NearestPerSide ==
    GraphBuilt =>
        \A a \in CamIdx : \A side \in Sides :
            LET chosen == SideOfPair(navGraph[a], side)
                Q == Qualifying(a, side)
            IN  /\ (chosen = Undefined) <=> (Q = {})
                /\ chosen # Undefined =>
                    /\ chosen \in Q
                    /\ \A b \in Q : GapSq(a, chosen).v <= GapSq(a, b).v

\* a camera with two qualifying members on one side, the farther one first in
\* index order, and the nearer one chosen
C1_Witness ==
    /\ GraphBuilt
    /\ \E a \in CamIdx : \E side \in Sides : \E b, c \in Qualifying(a, side) :
        /\ GapSq(a, b).v < GapSq(a, c).v
        /\ c < b
        /\ SideOfPair(navGraph[a], side) = b

---------------------------------------------------------------------------
(* C3: whatever the cameras, duplicate or non-finite positions included, no
   candidate pool holds the camera's own index or a camera at a zero or
   non-finite distance, and no left or right entry is such a camera. *)
C3_NoSelfNoDegenerate ==
    /\ Built =>
        \A a \in CamIdx : \A b \in PoolOf(a) : b # a /\ Apart(a, b)
    /\ GraphBuilt =>
        \A a \in CamIdx : \A side \in Sides :
            LET chosen == SideOfPair(navGraph[a], side)
            IN  chosen # Undefined => chosen # a /\ Apart(a, chosen)

\* a camera with a duplicate of itself in the scene and a neighbour in the graph
C3_Witness ==
    /\ GraphBuilt
    /\ \E a, b \in CamIdx :
        /\ a # b /\ GapSq(a, b) = Zero
        /\ \E side \in Sides : SideOfPair(navGraph[a], side) # Undefined

\* the same with a camera at a non-finite position
C3_WitnessNonFinite ==
    /\ GraphBuilt
    /\ \E a, b \in CamIdx :
        /\ ~GapSq(a, b).fin
        /\ \E side \in Sides : SideOfPair(navGraph[a], side) # Undefined

---------------------------------------------------------------------------
(* C5: a pool candidate is rejected as "mostly behind" exactly when
   |camX| < |camZ| and camZ <= 0.  Such a candidate is never a neighbour; a
   candidate with camZ <= 0 and |camX| >= |camZ|, or with camZ > 0, whose
   |camX| >= 1e-6 is kept: its side is populated, by it or by a candidate
   that is at most as far. *)
C5_MostlyBehind ==
    GraphBuilt =>
        \A a \in CamIdx : \A b \in PoolOf(a) :
            /\ Behind(a, b) =>
                navGraph[a].left # b /\ navGraph[a].right # b
            /\ \A side \in Sides :
                (/\ ~Behind(a, b)
                 /\ IF side = "left" THEN LateralLeft(a, b)
                                     ELSE LateralRight(a, b))
                => LET chosen == SideOfPair(navGraph[a], side)
                   IN  /\ chosen # Undefined
                       /\ GapSq(a, chosen).v <= GapSq(a, b).v
                       /\ (\A c \in Qualifying(a, side) \ {b} :
                              GapSq(a, b).v < GapSq(a, c).v) => chosen = b

\* a neighbour behind the camera plane with |camX| = |camZ| was chosen and a
\* mostly-behind candidate with a lateral offset was in a pool
C5_Witness ==
    /\ GraphBuilt
    /\ \E a \in CamIdx : \E side \in Sides :
        LET chosen == SideOfPair(navGraph[a], side)
        IN  /\ chosen # Undefined
            /\ Forward(a, chosen).v < 0
            /\ AbsInt(Lateral(a, chosen).v) = AbsInt(Forward(a, chosen).v)
    /\ \E a \in CamIdx : \E b \in PoolOf(a) : Behind(a, b) /\ Lateral(a, b).v # 0

\* a neighbour ahead of the camera with |camX| < |camZ| was chosen
C5_WitnessAhead ==
    /\ GraphBuilt
    /\ \E a \in CamIdx : \E side \in Sides :
        LET chosen == SideOfPair(navGraph[a], side)
        IN  /\ chosen # Undefined
            /\ Forward(a, chosen).v > 0
            /\ AbsInt(Lateral(a, chosen).v) < AbsInt(Forward(a, chosen).v)

---------------------------------------------------------------------------
(* C6: the right neighbour of a camera has camX >= 1e-6 and the left one has
   camX <= -1e-6, camX being row 0 of the camera's world-to-camera rotation
   times the displacement; a candidate whose camX is non-finite or below 1e-6
   in magnitude is on neither side. *)
C6_SideSign ==
    GraphBuilt =>
        \A a \in CamIdx :
            /\ navGraph[a].right # Undefined => LateralRight(a, navGraph[a].right)
            /\ navGraph[a].left # Undefined => LateralLeft(a, navGraph[a].left)
            /\ \A b \in PoolOf(a) :
                (~LateralRight(a, b) /\ ~LateralLeft(a, b))
                => navGraph[a].left # b /\ navGraph[a].right # b

\* a pool member straight ahead (camX = 0, camZ > 0) beside a chosen neighbour
C6_Witness ==
    /\ GraphBuilt
    /\ \E a \in CamIdx : \E b \in PoolOf(a) :
        /\ Lateral(a, b) = Zero /\ Forward(a, b).v > 0
        /\ navGraph[a].left # Undefined \/ navGraph[a].right # Undefined

---------------------------------------------------------------------------
(* C7: the output is a function of positions and rotations with ties broken
   by ascending distance and then by camera index: a pool is closed under
   "nearer, or equally near with a smaller index", and each side holds the
   qualifying member that is least in that order. *)
Before(a, b, c) ==
    LET gb == GapSq(a, b).v
        gc == GapSq(a, c).v
    IN  gb < gc \/ (gb = gc /\ b < c)

C7_TieBreak ==
    /\ Built =>
        \A a \in CamIdx : \A c \in PoolOf(a) : \A b \in CamIdx \ {a} :
            (Apart(a, b) /\ Before(a, b, c)) => b \in PoolOf(a)
    /\ GraphBuilt =>
        \A a \in CamIdx : \A side \in Sides :
            LET chosen == SideOfPair(navGraph[a], side)
                Q == Qualifying(a, side)
            IN  IF chosen = Undefined THEN Q = {}
                ELSE chosen \in Q /\ \A b \in Q \ {chosen} : Before(a, chosen, b)

\* two equidistant candidates of which the cap lets in one, the one let in
\* being the neighbour of its side
C7_Witness ==
    /\ GraphBuilt
    /\ \E a \in CamIdx : \E b \in PoolOf(a) : \E c \in CamIdx \ PoolOf(a) :
        /\ Apart(a, c) /\ GapSq(a, b) = GapSq(a, c)
        /\ \E side \in Sides : SideOfPair(navGraph[a], side) = b

\* two equidistant qualifying members on one side
C7_WitnessSide ==
    /\ GraphBuilt
    /\ \E a \in CamIdx : \E side \in Sides : \E b, c \in Qualifying(a, side) :
        b # c /\ GapSq(a, b) = GapSq(a, c)

---------------------------------------------------------------------------
(* C4: for any cap K a pool never holds more than K indices; it holds exactly
   min(K, n) of them, n being the number of cameras at a non-zero finite
   distance; candidates within the radius come before any candidate beyond
   it, and those beyond it are added in ascending distance. *)
Reachable(a) == {b \in CamIdx \ {a} : Apart(a, b)}
InRadius(a, b) == radius >= 0 /\ GapSq(a, b).v <= radius * radius

PoolShape(a) ==
    LET pool == Cam(a).navigableNeighbors
    IN  /\ Len(pool) <= maxNeighbors
        /\ Len(pool) = MinInt(maxNeighbors, Cardinality(Reachable(a)))
        /\ \A k, l \in 1..Len(pool) :
            k < l =>
                /\ ~(~InRadius(a, pool[k]) /\ InRadius(a, pool[l]))
                /\ (~InRadius(a, pool[k]) /\ ~InRadius(a, pool[l]))
                    => GapSq(a, pool[k]).v <= GapSq(a, pool[l]).v

C4_PoolCap == Built => \A a \in CamIdx : PoolShape(a)

\* the same for the caps from 1 on
C4_PoolCapPositive ==
    (Built /\ maxNeighbors >= 1) => \A a \in CamIdx : PoolShape(a)

---------------------------------------------------------------------------
(* The radius and the pool *)

\* the radii a pool is compared under: a negative one, none, the two of the
\* scenario and one beyond the default
ProbeRadii == {-1, 0, NAV_GRAPH_RADIUS + 1} \cup Radii

\* the first count entries of a's candidate list in ascending distance
NearestOf(a, count) ==
    LET list == sortedCandidates(cameras, a + 1)
    IN  [k \in 1..MinInt(count, Len(list)) |-> list[k].index]

\* the cameras built under another radius are the published ones, and so
\* is their graph
SameScene(rebuilt) ==
    /\ rebuilt = cameras
    /\ GraphBuilt => buildNavGraph(rebuilt) = navGraph

C29_WitnessCut ==
    /\ Built
    /\ maxNeighbors >= 1
    /\ \E a \in CamIdx : \E b \in Reachable(a) \ PoolOf(a) : InRadius(a, b)

---------------------------------------------------------------------------
(* The shape of the graph *)

\* C27: the graph buildNavGraph returns has one entry for each camera index
\* and no other key; a populated left or right is the index of a camera of
\* the scene taken from that camera's pool; left and right, when both are
\* populated, are two cameras; an entry may have no side populated
C27_WellFormed ==
    GraphBuilt =>
        /\ DOMAIN navGraph = CamIdx
        /\ \A a \in CamIdx :
            /\ DOMAIN navGraph[a] = {"left", "right"}
            /\ \A side \in Sides :
                LET chosen == SideOfPair(navGraph[a], side)
                IN  chosen # Undefined =>
                        /\ chosen \in CamIdx \ {a}
                        /\ chosen \in PoolOf(a)
            /\ (navGraph[a].left # Undefined /\ navGraph[a].right # Undefined)
                    => navGraph[a].left # navGraph[a].right

\* three cameras: one with both sides populated, one with no side populated
C27_Witness ==
    /\ GraphBuilt
    /\ Len(cameras) = 3
    /\ \E a \in CamIdx :
        navGraph[a].left # Undefined /\ navGraph[a].right # Undefined
    /\ \E a \in CamIdx :
        /\ PoolOf(a) # {}
        /\ navGraph[a] = [left |-> Undefined, right |-> Undefined]

\* a camera with an empty pool has an entry, with no side populated
C27_WitnessNoPool ==
    /\ GraphBuilt
    /\ \E a \in CamIdx :
        /\ PoolOf(a) = {}
        /\ navGraph[a] = [left |-> Undefined, right |-> Undefined]

---------------------------------------------------------------------------
(* The line scenario: cameras one unit apart along the shared camera X axis *)

MaxLine == 8

HalfTurn == <<Vec(-1, 0, 0), Vec(0, 1, 0), Vec(0, 0, -1)>>
\* a quarter turn about the camera's Z axis: camera X is world Y
Roll == <<Vec(0, 1, 0), Vec(-1, 0, 0), Vec(0, 0, 1)>>
LineRotations == { Identity, QuarterTurn, HalfTurn, Roll }
LineStarts == { Vec(0, 0, 0), Vec(-2, 1, 3), Vec(4, 0, -1) }

\* the translation of a camera with rotation R standing at P: t = -(R P)
TranslationAt(R, P) ==
    [r \in 1..3 |-> FNeg(Dot3(R[r][1], R[r][2], R[r][3], P[1], P[2], P[3]))]

\* the i-th place of the line: i steps from the start along row 0 of R
LinePlace(R, start, i) ==
    [c \in 1..3 |-> FAdd(start[c], FMul(Num(i), R[1][c]))]

LineInit ==
    /\ pc = "loaded"
    /\ \E n \in 2..MaxLine : \E R \in LineRotations : \E start \in LineStarts :
        /\ extrinsicsMatrices =
            [i \in 1..n |-> Extrinsic(R, TranslationAt(R, LinePlace(R, start, i - 1)))]
        /\ intrinsicsMatrices = [i \in 1..n |-> Pinhole]
    /\ radius = NAV_GRAPH_RADIUS
    /\ maxNeighbors = NAV_GRAPH_NEIGHBORS
    /\ cameras = <<>>
    /\ navGraph = <<>>
    /\ worldPoint = NoPoint
    /\ projection = NoProjection
    /\ ray = NoRay
    /\ NpyIdle
    /\ HooksIdle

LineSpec == LineInit /\ [][Next]_vars

(* C2: N cameras on a line, one unit apart along the shared camera X axis and
   identically oriented: every interior camera i has left = i-1 and
   right = i+1, camera 0 has only right = 1 and camera N-1 only left = N-2. *)
C2_LineNeighbours ==
    GraphBuilt =>
        LET n == Len(cameras)
        IN  /\ DOMAIN navGraph = 0..(n - 1)
            /\ \A i \in 0..(n - 1) :
                /\ navGraph[i].left = (IF i > 0 THEN i - 1 ELSE Undefined)
                /\ navGraph[i].right = (IF i < n - 1 THEN i + 1 ELSE Undefined)

\* the scenario of five cameras, turned away from the world axes
C2_Witness ==
    /\ GraphBuilt
    /\ Len(cameras) = 5
    /\ cameras[1].rotationW2C = QuarterTurn
    /\ navGraph[2] = [left |-> 1, right |-> 3]
    /\ navGraph[0] = [left |-> Undefined, right |-> 1]
    /\ navGraph[4] = [left |-> 3, right |-> Undefined]

---------------------------------------------------------------------------
(* The projection scenario: one camera, world points projected on demand *)

\* twice the identity: not orthonormal
Doubled == <<Vec(2, 0, 0), Vec(0, 2, 0), Vec(0, 0, 2)>>

ProjExtrinsics ==
    { Extrinsic(Identity, Vec(0, 0, 5)),
      Extrinsic(QuarterTurn, Vec(1, 0, 2)),
      Extrinsic(Roll, Vec(-1, 2, 0)),
      Extrinsic(Doubled, Vec(0, 0, 1)),
      Extrinsic(Identity, <<Zero, Zero, PosInf>>),
      Extrinsic(<<<<One, Zero, Zero>>, <<Zero, One, Zero>>, <<Zero, NaN, One>>>>,
                Vec(0, 0, 1)) }

ProjIntrinsics ==
    { Pinhole,
      <<Vec(100, 2, 50), Vec(0, 100, 50), Vec(0, 0, 1)>>,
      <<Vec(100, 0, 50), Vec(0, 100, 50), Vec(0, 0, 0)>>,
      <<Vec(100, 0, 50), Vec(0, 100, 50), Vec(1, 0, 1)>>,
      <<<<PosInf, Zero, Num(50)>>, Vec(0, 100, 50), Vec(0, 0, 1)>>,
      <<Vec(100, 0, 50), Vec(0, 100, 50), <<Zero, Zero, NaN>>>> }

ProjPoints ==
    { Vec(0, 0, 0), Vec(0, 0, -5), Vec(0, 0, -6), Vec(1, 2, 3), Vec(-3, 1, 3),
      <<Zero, NaN, Zero>> }

ProjInit ==
    /\ pc = "loaded"
    /\ extrinsicsMatrices \in {<<m>> : m \in ProjExtrinsics}
    /\ intrinsicsMatrices \in {<<k>> : k \in ProjIntrinsics}
    /\ radius = NAV_GRAPH_RADIUS
    /\ maxNeighbors = NAV_GRAPH_NEIGHBORS
    /\ cameras = <<>>
    /\ navGraph = <<>>
    /\ worldPoint = NoPoint
    /\ projection = NoProjection
    /\ ray = NoRay
    /\ NpyIdle
    /\ HooksIdle

\* the overlay's projection of a world point through a camera of the scene;
\* the point is any of ProjPoints or the camera's own position
Project ==
    /\ pc \in {"cameras", "projected"}
    /\ \E c \in 1..Len(cameras) :
        \E p \in ProjPoints \cup {cameras[c].positionWorld} :
            /\ worldPoint' = p
            /\ projection' = projectWorldPointToImage(cameras[c].extrinsicsW2C,
                                                      cameras[c].intrinsics, p)
    /\ pc' = "projected"
    /\ UNCHANGED <<extrinsicsMatrices, intrinsicsMatrices, radius, maxNeighbors,
                   cameras, navGraph, ray>>
    /\ UNCHANGED npyVars
    /\ UNCHANGED hookVars
    /\ UNCHANGED navHookVars

\* a click on the pixel the point was projected to, in distance or area mode
Unproject ==
    /\ pc = "projected"
    /\ projection.kind = "point"
    /\ ray' = unproject(cameras[1], projection.u, projection.v)
    /\ pc' = "unprojected"
    /\ UNCHANGED <<extrinsicsMatrices, intrinsicsMatrices, radius, maxNeighbors,
                   cameras, navGraph, worldPoint, projection>>
    /\ UNCHANGED npyVars
    /\ UNCHANGED hookVars
    /\ UNCHANGED navHookVars

ProjNext == BuildSceneCameras \/ Project \/ Unproject

ProjSpec == ProjInit /\ [][ProjNext]_vars

---------------------------------------------------------------------------
(* The vocabulary of the projection properties: the camera of the scenario,
   the camera-space point and the homogeneous image point of worldPoint *)

ProjCam == cameras[1]
Sum3(a, b, c) == FAdd(FAdd(a, b), c)

PointInCamera(extr, p) ==
    [r \in 1..3 |->
        FAdd(Sum3(FMul(extr[r][1], p[1]), FMul(extr[r][2], p[2]),
                  FMul(extr[r][3], p[3])), extr[r][4])]

Homogeneous(K, q) ==
    [r \in 1..3 |->
        Sum3(FMul(K[r][1], q[1]), FMul(K[r][2], q[2]), FMul(K[r][3], q[3]))]

Projected == pc = "projected"

(* C8: projectWorldPointToImage returns none when the camera-space depth Z is
   <= 0 or non-finite, when the homogeneous w is zero or non-finite, and when
   u or v is non-finite; otherwise it returns u = x/w, v = y/w and the depth
   Z > 0.  With R = I, t = (0,0,5), fx = fy = 100, cx = cy = 50 the world
   origin gives u = 50, v = 50, depth 5. *)
C8_Projection ==
    Projected =>
        LET q == PointInCamera(ProjCam.extrinsicsW2C, worldPoint)
            h == Homogeneous(ProjCam.intrinsics, q)
            depthBad == ~q[3].fin \/ q[3].v <= 0
            wBad == ~h[3].fin \/ h[3].v = 0
            uvBad == ~h[1].fin \/ ~h[2].fin
        IN  /\ IF depthBad \/ wBad \/ uvBad
               THEN projection.kind = "null"
               ELSE /\ projection.kind = "point"
                    /\ projection.u.num * h[3].v = h[1].v * projection.u.den
                    /\ projection.v.num * h[3].v = h[2].v * projection.v.den
                    /\ projection.z = q[3]
                    /\ projection.z.v > 0
            /\ (/\ ProjCam.extrinsicsW2C = Extrinsic(Identity, Vec(0, 0, 5))
                /\ ProjCam.intrinsics = Pinhole
                /\ worldPoint = Vec(0, 0, 0))
               => projection = [kind |-> "point",
                                u |-> [fin |-> TRUE, num |-> 50, den |-> 1],
                                v |-> [fin |-> TRUE, num |-> 50, den |-> 1],
                                z |-> Num(5)]

\* the scenario of the specification: the origin lands on the principal point
C8_Witness ==
    /\ Projected
    /\ ProjCam.extrinsicsW2C = Extrinsic(Identity, Vec(0, 0, 5))
    /\ ProjCam.intrinsics = Pinhole
    /\ worldPoint = Vec(0, 0, 0)
    /\ projection.kind = "point"
    /\ projection.z = Num(5)

\* a point returned with a quotient that is not an integer, and the rejections
\* by depth, by w and by a non-finite u
C8_WitnessFraction ==
    Projected /\ projection.kind = "point" /\ projection.u.den > 1
C8_WitnessZeroW ==
    /\ Projected /\ projection.kind = "null"
    /\ LET q == PointInCamera(ProjCam.extrinsicsW2C, worldPoint)
           h == Homogeneous(ProjCam.intrinsics, q)
       IN  q[3].fin /\ q[3].v > 0 /\ h[3] = Zero
C8_WitnessNonFiniteU ==
    /\ Projected /\ projection.kind = "null"
    /\ LET q == PointInCamera(ProjCam.extrinsicsW2C, worldPoint)
           h == Homogeneous(ProjCam.intrinsics, q)
       IN  q[3].fin /\ q[3].v > 0 /\ h[3].fin /\ h[3].v # 0 /\ ~h[1].fin

---------------------------------------------------------------------------
(* C9: for every [R | t], decomposeExtrinsicsW2C gives rotationW2C = R,
   translationW2C = t, rotationC2W[i][j] = R[j][i] and
   positionWorld = -(rotationC2W . t); for orthonormal R the camera's own
   position maps to the camera-space point (0,0,0) and projects to none. *)
Orthonormal(R) ==
    /\ \A r, c \in 1..3 : R[r][c].fin
    /\ \A r, c \in 1..3 :
        R[r][1].v * R[c][1].v + R[r][2].v * R[c][2].v + R[r][3].v * R[c][3].v
            = (IF r = c THEN 1 ELSE 0)

FiniteTranslation(M) == \A r \in 1..3 : M[r][4].fin

\* the decomposition of camera k; its own position maps to (0,0,0) when R is
\* orthonormal and `pre` holds
Decomposed(k, pre) ==
    LET M == extrinsicsMatrices[k]
        cam == cameras[k]
        d == decomposeExtrinsicsW2C(M)
    IN  /\ \A r, c \in 1..3 : cam.rotationW2C[r][c] = M[r][c]
        /\ \A r \in 1..3 : d.translationW2C[r] = M[r][4]
        /\ \A r \in 1..3 : cam.extrinsicsW2C[r][4] = M[r][4]
        /\ \A i, j \in 1..3 : cam.rotationC2W[i][j] = M[j][i]
        /\ \A i \in 1..3 :
            cam.positionWorld[i] =
                FNeg(Sum3(FMul(M[1][i], M[1][4]), FMul(M[2][i], M[2][4]),
                          FMul(M[3][i], M[3][4])))
        /\ Orthonormal(cam.rotationW2C) =>
            /\ pre => PointInCamera(cam.extrinsicsW2C, cam.positionWorld)
                        = <<Zero, Zero, Zero>>
            /\ (Projected /\ worldPoint = cam.positionWorld)
                => projection.kind = "null"

\* C9 as stated: for every [R | t] with orthonormal R
C9_DecompositionAnyTranslation ==
    Built => \A k \in 1..Len(cameras) : Decomposed(k, TRUE)

\* C9 amended: the camera-space point of the own position is (0,0,0) when R is
\* orthonormal and t is finite; the rest as stated
C9_Decomposition ==
    Built => \A k \in 1..Len(cameras) :
        Decomposed(k, FiniteTranslation(extrinsicsMatrices[k]))

\* a camera turned away from the world axes whose own position was projected
C9_Witness ==
    /\ Projected
    /\ ProjCam.rotationW2C = QuarterTurn
    /\ ProjCam.rotationC2W # ProjCam.rotationW2C
    /\ worldPoint = ProjCam.positionWorld
    /\ projection.kind = "null"

Unprojected == pc = "unprojected"

\* a - b and the cross and dot product of integer vectors
Minus(a, b) == [c \in 1..3 |-> FSub(a[c], b[c])]
Cross(a, b) ==
    <<FSub(FMul(a[2], b[3]), FMul(a[3], b[2])),
      FSub(FMul(a[3], b[1]), FMul(a[1], b[3])),
      FSub(FMul(a[1], b[2]), FMul(a[2], b[1]))>>
Dot(a, b) == Sum3(FMul(a[1], b[1]), FMul(a[2], b[2]), FMul(a[3], b[3]))

\* the point lies on the ray, ahead of its origin
PassesThrough(r, point) ==
    /\ \A c \in 1..3 : IsFinite(r.direction[c])
    /\ Cross(r.direction, Minus(point, r.origin)) = <<Zero, Zero, Zero>>
    /\ FLt(Zero, Dot(r.direction, Minus(point, r.origin)))

\* K has the form the unprojection inverts: no skew, no shear, bottom row
\* [0, 0, 1], focal lengths other than 0
PlainPinhole(K) ==
    /\ K[1][2] = Zero /\ K[2][1] = Zero
    /\ K[3] = Vec(0, 0, 1)
    /\ K[1][1] # Zero /\ K[2][2] # Zero

\* C25: the ray for the pixel a world point was projected to starts at the
\* camera's positionWorld and goes through that point, for every intrinsic
\* matrix the projector accepts, a skewed one included
C25_UnprojectInverts ==
    Unprojected =>
        /\ ray.origin = ProjCam.positionWorld
        /\ Orthonormal(ProjCam.rotationW2C) => PassesThrough(ray, worldPoint)

\* the part of C25 the code keeps: it holds for intrinsics without skew and
\* with the bottom row [0, 0, 1]
C25_PinholeInverts ==
    (Unprojected /\ Orthonormal(ProjCam.rotationW2C)
                 /\ PlainPinhole(ProjCam.intrinsics)) =>
        /\ ray.origin = ProjCam.positionWorld
        /\ PassesThrough(ray, worldPoint)

\* a point off the optical axis of a turned pinhole camera, and its ray
C25_WitnessPinhole ==
    /\ Unprojected
    /\ ProjCam.rotationW2C = QuarterTurn
    /\ ProjCam.intrinsics = Pinhole
    /\ worldPoint = Vec(0, 0, -6)
    /\ ray.origin = Vec(-2, 0, 1)
    /\ PassesThrough(ray, worldPoint)

\* K[0][1] = 2: the ray of the pixel misses the point
C25_WitnessSkew ==
    /\ Unprojected
    /\ Orthonormal(ProjCam.rotationW2C)
    /\ ProjCam.intrinsics[1][2] = Num(2)
    /\ ~PassesThrough(ray, worldPoint)

---------------------------------------------------------------------------
(* Array files: an array is written to a file by its producer and the file is
   decoded by parseNpy. *)

MaxRank == 2
MaxDim == 3

Float32Descr == Text(<<"<", "f", "4">>)
Float64Descr == Text(<<"<", "f", "8">>)

\* bit patterns of 0.0, 1.0, a NaN and a negative subnormal, little-endian
Float32Values == <<<<0, 0, 0, 0>>, <<0, 0, 128, 63>>, <<0, 0, 192, 127>>, <<1, 0, 0, 128>>>>
Float64Values ==
    <<<<0, 0, 0, 0, 0, 0, 0, 0>>, <<0, 0, 0, 0, 0, 0, 240, 63>>,
      <<0, 0, 0, 0, 0, 0, 248, 127>>, <<1, 0, 0, 0, 0, 0, 0, 128>>>>

ValuesOf(descr) == IF descr = Float32Descr THEN Float32Values ELSE Float64Values

\* the shapes up to MaxRank dimensions of up to MaxDim entries, and the shapes
\* of a 3x4 matrix and of its twelve entries in a row
Shapes ==
    UNION {[1..rank -> 0..MaxDim] : rank \in 0..MaxRank} \cup {<<12>>, <<3, 4>>}

RECURSIVE product(_)
product(shape) == IF shape = <<>> THEN 1 ELSE Head(shape) * product(Tail(shape))

\* an array of the given shape whose elements run through the values of its
\* type, starting at the value numbered `first`
ArrayOf(descr, shape, first) ==
    [dtype |-> descr,
     shape |-> shape,
     data |-> [k \in 1..product(shape) |->
                  ValuesOf(descr)[((first + k) % Len(ValuesOf(descr))) + 1]]]

SceneIdle ==
    /\ extrinsicsMatrices = <<>>
    /\ intrinsicsMatrices = <<>>
    /\ radius = NAV_GRAPH_RADIUS
    /\ maxNeighbors = NAV_GRAPH_NEIGHBORS
    /\ cameras = <<>>
    /\ navGraph = <<>>
    /\ worldPoint = NoPoint
    /\ projection = NoProjection
    /\ ray = NoRay

NpyInit ==
    /\ pc = "array"
    /\ SceneIdle
    /\ HooksIdle
    /\ \E descr \in {Float32Descr, Float64Descr}, shape \in Shapes,
          first \in 0..(Len(Float32Values) - 1) :
            npyArray = ArrayOf(descr, shape, first)
    /\ buffer = <<>>
    /\ parsed = NotParsed
    /\ layout = NoLayout
    /\ reshaped = NotParsed
    /\ poseResult = NotParsed

\* the producer writes the array, in version 1 or version 2 of the format
Encode ==
    /\ pc = "array"
    /\ \E major \in {1, 2} : buffer' = EncodeNpy(npyArray, major)
    /\ pc' = "encoded"
    /\ UNCHANGED <<npyArray, parsed, layout, reshaped, poseResult>>
    /\ UNCHANGED sceneVars
    /\ UNCHANGED hookVars
    /\ UNCHANGED navHookVars

\* parseNpy(buffer)
Parse ==
    /\ pc = "encoded"
    /\ parsed' = parseNpy(buffer)
    /\ pc' = "parsed"
    /\ UNCHANGED <<npyArray, buffer, layout, reshaped, poseResult>>
    /\ UNCHANGED sceneVars
    /\ UNCHANGED hookVars
    /\ UNCHANGED navHookVars

NpyNext == Encode \/ Parse

NpySpec == NpyInit /\ [][NpyNext]_vars

Decoded == pc = "parsed"

\* the shape parseNpy returned is the given one, entry for entry
SameShape(shape) ==
    /\ Len(parsed.shape) = Len(shape)
    /\ \A k \in 1..Len(shape) : parsed.shape[k] = Num(shape[k])

\* the array came back: same shape, same bits
RoundTripped ==
    /\ parsed.kind = "ok"
    /\ SameShape(npyArray.shape)
    /\ parsed.data = npyArray.data

\* C10: writing a float32 or float64 row-major array of any shape and
\* decoding the file gives the shape back entry for entry and the data bit
\* for bit
C10_RoundTrip == Decoded => RoundTripped

\* the round trip of every array whose shape is not (1,)
C10_RoundTripButSingleton == (Decoded /\ npyArray.shape # <<1>>) => RoundTripped

\* what parseNpy makes of a shape (1,): the data bit for bit, the shape [1, 1]
C10_SingletonReshaped ==
    (Decoded /\ npyArray.shape = <<1>>) =>
        /\ parsed.kind = "ok"
        /\ parsed.data = npyArray.data
        /\ parsed.shape = <<One, One>>

---------------------------------------------------------------------------
(* Files as found on disk: any bytes may be handed to parseNpy.  A layout
   says what a file holds: the signature, the version, the three header
   fields as written (or left out), the padding of the header, the length
   the file declares for it, the payload bytes and how many bytes of the
   whole survived. *)

\* a field the header does not have
Missing == <<0>>

Quoted(text) == Text(<<"'">>) \o text \o Text(<<"'">>)

BigEndianFloat32 == Text(<<">", "f", "4">>)
Int32Descr == Text(<<"<", "i", "4">>)
Float16Descr == Text(<<"<", "f", "2">>)
NativeFloat32 == Text(<<"=", "f", "4">>)

\* descriptors a file may declare
Descriptors ==
    Float32Descrs \cup Float64Descrs
    \cup {BigEndianFloat32, Int32Descr, Float16Descr, NativeFloat32}

\* the descr field as written: a quoted descriptor; malformed: empty quotes,
\* no quotes
DescrFields ==
    {Quoted(d) : d \in Descriptors} \cup {Quoted(<<>>), Float32Descr, Missing}

NoneText == Text(<<"N", "o", "n", "e">>)
FortranFields == {FalseText, TrueText, NoneText, Missing}

\* shape tuples as written, with the entries they stand for
Shape34 == Text(<<"(", "3", ",", " ", "4", ")">>)
Shape12 == Text(<<"(", "1", "2", ",", ")">>)
Shape1 == OneTuple
Shape0d == Text(<<"(", ")">>)
ShapeLetter == Text(<<"(", "3", ",", " ", "x", ")">>)
ShapeFraction == Text(<<"(", "3", ",", " ", "4", ".", "5", ")">>)
ShapeBare == Text(<<"3", ",", " ", "4">>)

GoodShapeFields == {Shape34, Shape12, Shape1, Shape0d}
ShapeFields == GoodShapeFields \cup {ShapeLetter, ShapeFraction, ShapeBare, Missing}

\* payload sizes in bytes: none, one float, short of / exactly / beyond the
\* twelve floats of a 3x4 matrix, two 3x3 matrices of floats (nine doubles),
\* two 3x4 matrices of floats (twelve doubles)
PayloadSizes == {0, 4, 46, 48, 52, 72, 96}

BadMagic == <<146>> \o Text(<<"N", "U", "M", "P", "Y">>)
LowerMagic == <<147>> \o Text(<<"n", "u", "m", "p", "y">>)
Magics == {MagicBytes, BadMagic, LowerMagic}

\* how many bytes of a damaged file are left: <<k>>, or <<>> for all of them
Whole == <<>>
Kept == {<<5>>, <<6>>, <<7>>, <<9>>, <<11>>, <<40>>, Whole}

LayoutOf(magic, major, descr, fortran, shape, long, excess, payload, keep) ==
    [kind |-> "file", magic |-> magic, major |-> major, descr |-> descr,
     fortran |-> fortran, shape |-> shape, long |-> long, excess |-> excess,
     payload |-> payload, keep |-> keep]

\* well-framed version-1 files with every combination of header fields
HeaderLayouts ==
    {LayoutOf(MagicBytes, 1, d, f, sh, FALSE, 0, n, Whole) :
        d \in DescrFields, f \in FortranFields, sh \in ShapeFields,
        n \in PayloadSizes}

\* files of a 3x4 float32 matrix under every framing: signature, version,
\* short or long header, a declared length beyond the file, truncation
FramingLayouts ==
    {l \in {LayoutOf(m, v, Quoted(Float32Descr), FalseText, Shape34, long, x, 48, k) :
                m \in Magics, v \in 0..3, long \in BOOLEAN,
                x \in {0, 256, 65536}, k \in Kept} :
        l.excess = 65536 => l.major >= 2}

Layouts == HeaderLayouts \cup FramingLayouts

\* 'key': value,  or nothing for a field the header does not have
fieldText(key, value) ==
    IF value = Missing THEN <<>>
    ELSE key \o Text(<<":", " ">>) \o value \o Text(<<",", " ">>)

\* the dictionary of a layout
dictText(l) ==
    Text(<<"{">>) \o fieldText(DescrKey, l.descr)
    \o fieldText(FortranKey, l.fortran) \o fieldText(ShapeKey, l.shape)
    \o Text(<<"}">>)

\* the width of the length field of a version
lengthWidth(major) == IF major <= 1 THEN 2 ELSE 4

\* the header of a layout: the dictionary, spaces up to the next ARRAY_ALIGN
\* boundary (and four blocks more in a long header), a newline
headerOf(l) ==
    LET text == dictText(l)
        used == 8 + lengthWidth(l.major) + Len(text) + 1
        padLen == ARRAY_ALIGN - (used % ARRAY_ALIGN)
                    + (IF l.long THEN 4 * ARRAY_ALIGN ELSE 0)
    IN  text \o [k \in 1..padLen |-> CharCode[" "]] \o Text(<<"\n">>)

\* payload bytes, each telling its place
payloadOf(n) == [k \in 1..n |-> (k * 37) % 256]

\* the length a layout declares for its header
declaredLen(l) == Len(headerOf(l)) + l.excess

\* all bytes of the file, then the ones that are left of it
bytesOf(l) ==
    LET all == l.magic \o <<l.major, 0>>
               \o littleEndian(declaredLen(l), lengthWidth(l.major))
               \o headerOf(l) \o payloadOf(l.payload)
    IN  IF l.keep = Whole THEN all ELSE SubSeq(all, 1, l.keep[1])

FileInit ==
    /\ pc = "file"
    /\ SceneIdle
    /\ HooksIdle
    /\ npyArray = NoArray
    /\ buffer = <<>>
    /\ parsed = NotParsed
    /\ reshaped = NotParsed
    /\ poseResult = NotParsed
    /\ layout \in Layouts

\* the file is read into a buffer
ReadFile ==
    /\ pc = "file"
    /\ buffer' = bytesOf(layout)
    /\ pc' = "encoded"
    /\ UNCHANGED <<npyArray, parsed, layout, reshaped, poseResult>>
    /\ UNCHANGED sceneVars
    /\ UNCHANGED hookVars
    /\ UNCHANGED navHookVars

\* the records a matrix file is cut into: 3x4 extrinsics, 3x3 intrinsics
RecordSizes == {<<3, 4>>, <<3, 3>>}

\* reshapeMatrices(parsed.data, parsed.shape, rows, cols)
Reshape ==
    /\ pc = "parsed"
    /\ parsed.kind = "ok"
    /\ \E size \in RecordSizes :
        reshaped' = [rows |-> size[1], cols |-> size[2],
                     result |-> reshapeMatrices(parsed.data, parsed.shape,
                                                size[1], size[2])]
    /\ pc' = "reshaped"
    /\ UNCHANGED <<npyArray, buffer, parsed, layout, poseResult>>
    /\ UNCHANGED sceneVars
    /\ UNCHANGED hookVars
    /\ UNCHANGED navHookVars

FileNext == ReadFile \/ Parse \/ Reshape

FileSpec == FileInit /\ [][FileNext]_vars

---------------------------------------------------------------------------
(* Claims about decoding files *)

Returned == Decoded /\ parsed.kind = "ok"
Threw(what) == Decoded /\ parsed = NpyError(what)

\* the product of the entries of a decoded shape (NaN entries make it NaN)
RECURSIVE shapeProduct(_)
shapeProduct(shape) ==
    IF shape = <<>> THEN One ELSE FMul(Head(shape), shapeProduct(Tail(shape)))

\* the version-1 file of a row-major 3x4 float32 matrix with exactly 48
\* payload bytes
Matrix34File ==
    LayoutOf(MagicBytes, 1, Quoted(Float32Descr), FalseText, Shape34, FALSE, 0,
             48, Whole)

\* C11: whenever parseNpy returns, its data has as many elements as the
\* product of its shape, whatever the buffer; and the 3x4 float32 file with
\* 48 payload bytes decodes to shape [3, 4] with 12 elements
C11_ElementCount ==
    /\ Returned => shapeProduct(parsed.shape) = Num(Len(parsed.data))
    /\ (Decoded /\ layout = Matrix34File) =>
        /\ parsed.kind = "ok"
        /\ parsed.shape = <<Num(3), Num(4)>>
        /\ Len(parsed.data) = 12

\* the second half of C11 alone: the 3x4 example
C11_Matrix34 ==
    (Decoded /\ layout = Matrix34File) =>
        /\ parsed.kind = "ok"
        /\ parsed.shape = <<Num(3), Num(4)>>
        /\ Len(parsed.data) = 12

\* what parseNpy returns instead: every whole element the bytes behind the
\* header hold
C11_AllBytesViewed ==
    Returned =>
        \E size \in {4, 8} : Len(parsed.data) * size = layout.payload

\* the errors parseNpy raises itself, by kind
FormatErrors ==
    {"Invalid NPY file signature", "Unsupported NPY version",
     "Unable to parse NPY header"}
LayoutErrors == {"Fortran-ordered NPY arrays are not supported"}
DtypeErrors == {"Unsupported dtype"}
DeclaredErrors == FormatErrors \cup LayoutErrors \cup DtypeErrors

Failed == Decoded /\ parsed.kind = "error"

\* the buffer does not start with the six signature bytes
NoSignature == Len(buffer) < 6 \/ SubSeq(buffer, 1, 6) # MagicBytes

\* C12: a buffer that does not start with the signature, however short,
\* fails with the format error; and no buffer fails with anything but the
\* format, layout and dtype errors
C12_SignatureAndDeclaredErrors ==
    /\ (Decoded /\ NoSignature) => Threw("Invalid NPY file signature")
    /\ Failed => parsed.error \in DeclaredErrors

\* the part of C12 the decoder keeps: six or more bytes that are not the
\* signature fail with the format error
C12_WrongSignature ==
    (Decoded /\ Len(buffer) >= 6 /\ NoSignature)
        => Threw("Invalid NPY file signature")

\* where parseNpy fails with a RangeError instead: fewer than six bytes, a
\* signature cut off before the length field, a header running past the
\* end of the buffer, a payload that does not divide into elements
C12_RangeErrors ==
    Threw("RangeError") <=>
        /\ Decoded
        /\ \/ Len(buffer) < 6
           \/ /\ ~NoSignature
              /\ \/ Len(buffer) < 8
                 \/ /\ layout.major \in {1, 2}
                    /\ \/ Len(buffer) < 8 + lengthWidth(layout.major)
                          + declaredLen(layout)
                       \/ /\ parseHeader(readHeader(buffer).header).kind = "ok"
                          /\ ~parseHeader(readHeader(buffer).header).fortranOrder
                          /\ \/ /\ parseHeader(readHeader(buffer).header).descr
                                    \in Float32Descrs
                                /\ layout.payload % 4 # 0
                             \/ /\ parseHeader(readHeader(buffer).header).descr
                                    \in Float64Descrs
                                /\ layout.payload % 8 # 0

\* a whole file with the signature and version 1
WellFramed == layout \in HeaderLayouts

\* fields that are absent or not written as the format writes them
BadDescrField == layout.descr \notin {Quoted(d) : d \in Descriptors}
BadFortranField == layout.fortran \notin {TrueText, FalseText}
BadShapeField == layout.shape \notin GoodShapeFields

\* a shape that is a tuple, with an entry that is not an integer
NonIntegerShape == layout.shape \in {ShapeLetter, ShapeFraction}

\* C13: a header with a missing or malformed descr, fortran_order or shape
\* field, a non-integer shape entry and a flag that is neither True nor
\* False included, makes parseNpy fail with the format error
C13_MalformedField ==
    (Decoded /\ WellFramed /\ (BadDescrField \/ BadFortranField \/ BadShapeField))
        => Threw("Unable to parse NPY header")

\* the part of C13 the decoder keeps: every missing or malformed field other
\* than a non-integer shape entry fails with the format error
C13_UnmatchedField ==
    (Decoded /\ WellFramed
       /\ (BadDescrField \/ BadFortranField
            \/ (BadShapeField /\ ~NonIntegerShape)))
        => Threw("Unable to parse NPY header")

\* a non-integer entry in an otherwise good header is parsed by parseInt: a
\* letter gives NaN, a fraction its integer part
C13_NonIntegerEntryParsed ==
    (Decoded /\ WellFramed /\ NonIntegerShape
       /\ ~BadDescrField /\ layout.fortran = FalseText
       /\ layout.descr = Quoted(Float32Descr) /\ layout.payload = 48)
        => /\ parsed.kind = "ok"
           /\ parsed.shape =
                IF layout.shape = ShapeLetter THEN <<Num(3), NaN>>
                ELSE <<Num(3), Num(4)>>

\* the bytes of a file from place `from` on, in groups of `size`
groupsFrom(bytes, from, size) ==
    [k \in 1..((Len(bytes) - from) \div size) |->
        SubSeq(bytes, from + (k - 1) * size + 1, from + k * size)]

\* a file of the 3x4 matrix with the signature, none of its bytes lost
WholeMatrixFile ==
    /\ layout \in FramingLayouts
    /\ layout.magic = MagicBytes
    /\ layout.keep = Whole

\* C14: with the signature in place, the header length is the 2 bytes at
\* byte 8 in version 1 and the 4 bytes at byte 8 in version 2, low byte
\* first, and the payload starts right behind the header (byte 10 + length,
\* byte 12 + length); every other major version fails with the format error
C14_HeaderLength ==
    /\ (Decoded /\ WholeMatrixFile /\ layout.major \in {1, 2}) =>
        IF layout.excess = 0
        THEN /\ parsed.kind = "ok"
             /\ parsed.data =
                  groupsFrom(buffer,
                             8 + lengthWidth(layout.major) + declaredLen(layout), 4)
             /\ parsed.data = groupsFrom(payloadOf(layout.payload), 0, 4)
        ELSE Threw("RangeError")
    /\ (Decoded /\ ~NoSignature /\ Len(buffer) >= 8 /\ layout.major \notin {1, 2})
        => Threw("Unsupported NPY version")

\* headers of 256 bytes and more were read in both versions, and a version-2
\* length with its third byte set, and versions 0 and 3 were turned down
C14_Witness ==
    /\ Returned /\ WholeMatrixFile /\ layout.long /\ layout.major = 2
    /\ declaredLen(layout) >= 256
    /\ Len(parsed.data) = 12

C14_WitnessVersion1 ==
    /\ Returned /\ WholeMatrixFile /\ layout.long /\ layout.major = 1
    /\ buffer[10] # 0

C14_WitnessHighByte ==
    /\ Decoded /\ WholeMatrixFile /\ layout.major = 2 /\ layout.excess = 65536
    /\ buffer[11] = 1

C14_WitnessVersion3 ==
    /\ Threw("Unsupported NPY version") /\ layout.major = 3 /\ ~NoSignature

\* the descriptor a well-formed descr field declares
DeclaredDescr == SubSeq(layout.descr, 2, Len(layout.descr) - 1)

\* the two element types: 32-bit floats in little-endian or unspecified byte
\* order (f alone is the 32-bit float), and 64-bit floats likewise
SinglePrecision == {Text(<<"<", "f", "4">>), Text(<<"|", "f", "4">>), Text(<<"<", "f">>)}
DoublePrecision == {Text(<<"<", "f", "8">>), Text(<<"|", "f", "8">>)}

\* a well-framed row-major file whose three fields are all found
RowMajorFile ==
    /\ WellFramed
    /\ ~BadDescrField
    /\ layout.fortran = FalseText
    /\ layout.shape \notin {Missing, ShapeBare}

WholeElements(size) == layout.payload % size = 0

\* C15: of a row-major file parseNpy accepts the 32-bit float descriptors and
\* the 64-bit float descriptors only, taking the payload as elements of 4
\* respectively 8 bytes; every other descriptor (big-endian and 16-bit
\* floats, integers, ...) fails with the unsupported-dtype error
C15_Descriptors ==
    (Decoded /\ RowMajorFile) =>
        IF DeclaredDescr \in SinglePrecision
        THEN WholeElements(4) =>
                /\ parsed.kind = "ok" /\ parsed.dtype = DeclaredDescr
                /\ parsed.data = groupsFrom(payloadOf(layout.payload), 0, 4)
        ELSE IF DeclaredDescr \in DoublePrecision
        THEN WholeElements(8) =>
                /\ parsed.kind = "ok" /\ parsed.dtype = DeclaredDescr
                /\ parsed.data = groupsFrom(payloadOf(layout.payload), 0, 8)
        ELSE Threw("Unsupported dtype")

\* a big-endian float32 file of 48 bytes was turned down
C15_Witness ==
    /\ Threw("Unsupported dtype")
    /\ RowMajorFile
    /\ DeclaredDescr = BigEndianFloat32
    /\ layout.payload = 48

\* twelve doubles were decoded
C15_WitnessDouble ==
    /\ Returned /\ RowMajorFile
    /\ DeclaredDescr = Float64Descr
    /\ layout.payload = 96 /\ Len(parsed.data) = 12

\* a well-framed file whose header declares a column-major payload
ColumnMajorFile ==
    /\ WellFramed
    /\ ~BadDescrField
    /\ layout.fortran = TrueText
    /\ layout.shape \notin {Missing, ShapeBare}

\* C16: a file whose header declares fortran_order True is rejected with the
\* unsupported-layout error whatever its descriptor, shape and payload, and
\* nothing is returned
C16_ColumnMajorRejected ==
    (Decoded /\ ColumnMajorFile)
        => Threw("Fortran-ordered NPY arrays are not supported")

\* a column-major file of an unsupported type, with a shape entry that is no
\* number and a payload of no whole elements, was rejected for its layout
C16_Witness ==
    /\ Threw("Fortran-ordered NPY arrays are not supported")
    /\ ColumnMajorFile
    /\ DeclaredDescr = Int32Descr
    /\ layout.shape = ShapeLetter
    /\ layout.payload = 46

---------------------------------------------------------------------------
(* Claims about matrix records *)

Reshaped == pc = "reshaped"
RecordLen == reshaped.rows * reshaped.cols

\* the result holds exactly the whole records of the data, in order
WholeRecords ==
    /\ reshaped.result.kind = "ok"
    /\ Len(reshaped.result.matrices) * RecordLen = Len(parsed.data)
    /\ \A i \in 1..Len(reshaped.result.matrices) :
         \A r \in 1..reshaped.rows : \A c \in 1..reshaped.cols :
            reshaped.result.matrices[i][r][c] =
                parsed.data[(i - 1) * RecordLen + (r - 1) * reshaped.cols + c]

\* C17: reshaping decoded data into records of rows x cols gives exactly
\* length / (rows*cols) fully populated matrices, matrix i holding the
\* elements [i*rows*cols, (i+1)*rows*cols) row by row; a length that is no
\* multiple of rows*cols fails with the shape error
C17_Reshape ==
    Reshaped =>
        IF Len(parsed.data) % RecordLen = 0 THEN WholeRecords
        ELSE reshaped.result.kind = "error"

\* the part of C17 the code keeps: data of whole records under a shape of two
\* or more dimensions comes back as these records
C17_WholeRecords ==
    (Reshaped /\ Len(parsed.data) % RecordLen = 0 /\ Len(parsed.shape) >= 2)
        => WholeRecords

\* what the code does with a length that is no multiple of rows*cols: the
\* last matrix is filled up with undefined
C17_PartialRecord ==
    (Reshaped /\ Len(parsed.data) % RecordLen # 0 /\ Len(parsed.shape) >= 2)
        => /\ reshaped.result.kind = "ok"
           /\ Len(reshaped.result.matrices) = (Len(parsed.data) \div RecordLen) + 1
           /\ LET last == reshaped.result.matrices[Len(reshaped.result.matrices)]
              IN  last[reshaped.rows][reshaped.cols] = undefined

---------------------------------------------------------------------------
(* useSceneData (hooks/useSceneData.ts): one effect per scene path.  The
   effect's cleanup sets the `cancelled` flag of the load before it; the load
   of the new path then runs up to its first await.  A load goes on at each
   await whenever the awaited promise settles. *)

MaxLoads == 3
Paths == {"A", "B"}

\* what readFileBuffer may find under a file name: nothing (null), an error
\* (the promise rejects), or a file
Files ==
    [extrinsics |->
        LayoutOf(MagicBytes, 1, Quoted(Float32Descr), FalseText,
                 Text(<<"(", "1", ",", " ", "3", ",", " ", "4", ")">>),
                 FALSE, 0, 48, Whole),
     intrinsics |->
        LayoutOf(MagicBytes, 1, Quoted(Float32Descr), FalseText,
                 Text(<<"(", "2", ",", " ", "3", ",", " ", "3", ")">>),
                 FALSE, 0, 72, Whole),
     corrupt |->
        LayoutOf(BadMagic, 1, Quoted(Float32Descr), FalseText,
                 Text(<<"(", "1", ",", " ", "3", ",", " ", "4", ")">>),
                 FALSE, 0, 48, Whole),
     flat |->
        LayoutOf(MagicBytes, 1, Quoted(Float32Descr), FalseText, Shape12,
                 FALSE, 0, 48, Whole),
     poses |->
        LayoutOf(MagicBytes, 1, Quoted(Float32Descr), FalseText,
                 Text(<<"(", "2", ",", " ", "2", ")">>),
                 FALSE, 0, 16, Whole)]

Unusable == {"absent", "unreadable", "corrupt", "flat"}
ExtrinsicsOnDisk == Unusable \cup {"extrinsics"}
IntrinsicsOnDisk == Unusable \cup {"intrinsics"}

\* pose_encoding.npy: not there, a directory of that name, a file that
\* readFileBuffer gives null for, a file without the signature, or a file
PoseUnusable == {"absent", "directory", "locked", "corrupt"}
PoseOnDisk == PoseUnusable \cup {"poses"}

\* window.electron.getFileStats
getFileStats(name) ==
    IF name = "absent" THEN [kind |-> "null"]
    ELSE [kind |-> "stats", isFile |-> name # "directory"]

\* window.electron.readFileBuffer, then normalizeToArrayBuffer
readFileBuffer(name) ==
    IF name = "unreadable" THEN [kind |-> "rejected"]
    ELSE IF name \in {"absent", "directory", "locked"} THEN [kind |-> "null"]
    ELSE [kind |-> "bytes", bytes |-> bytesOf(Files[name])]

\* a thrown error, by its message
Thrown(message) == [kind |-> "error", error |-> message]

\* the vectors loadPoseEncodings resolves to
Vectors(vectors) == [kind |-> "ok", vectors |-> vectors]

\* parsed.shape.slice(-1)[0] ?? 0
strideOf(shape) == IF shape = <<>> THEN Zero ELSE shape[Len(shape)]

\* lines 507-515 with a stride above 0: one slice per pass, the last one
\* cut at the end of the data
slicesOf(data, stride) ==
    [i \in 1..passes(Len(data), stride) |->
        SubSeq(data, (i - 1) * stride + 1, MinInt(i * stride, Len(data)))]

\* lines 506-515: vectorCount = data.length / stride is NaN for a stride of
\* NaN and for 0 / 0, below 0 for a stride below 0, Infinity for data over a
\* stride of 0, and the loop goes on while i < vectorCount
vectorsOf(data, stride) ==
    IF ~IsFinite(stride) \/ stride.v < 0 \/ (stride.v = 0 /\ Len(data) = 0)
    THEN Vectors(<<>>)
    ELSE IF stride.v = 0 THEN [kind |-> "endless"]
    ELSE Vectors(slicesOf(data, stride.v))

\* a catch block that throws the error on
posesOfUncaught(parsedPose) ==
    IF parsedPose.kind # "ok" THEN Thrown(parsedPose.error)
    ELSE vectorsOf(parsedPose.data, strideOf(parsedPose.shape))

\* lines 504-519: the try block and its catch
posesOf(parsedPose) ==
    IF parsedPose.kind # "ok" THEN Vectors(<<>>)
    ELSE vectorsOf(parsedPose.data, strideOf(parsedPose.shape))

\* lines 452-519: the checks before the try block
posesFrom(stats, poseBuffer) ==
    IF stats.kind = "null" \/ ~stats.isFile THEN Vectors(<<>>)
    ELSE IF poseBuffer.kind = "rejected" THEN Thrown("readFileBuffer rejected")
    ELSE IF poseBuffer.kind = "null" THEN Vectors(<<>>)
    ELSE posesOf(parseNpy(poseBuffer.bytes))

loadPoseEncodings(name) == posesFrom(getFileStats(name), readFileBuffer(name))

\* lines 569-570: the camera list is kept by its length, Math.min of the
\* two record counts, and by the vectors handed to it
camerasOf(extrMatrices, intrMatrices, poseEncodings) ==
    IF extrMatrices.kind # "ok" THEN Thrown(extrMatrices.error)
    ELSE IF intrMatrices.kind # "ok" THEN Thrown(intrMatrices.error)
    ELSE [kind |-> "ok",
          cameraCount |-> MinInt(Len(extrMatrices.matrices),
                                 Len(intrMatrices.matrices)),
          poseEncodings |-> poseEncodings.vectors]

\* lines 566-567: the records of the two decoded files
matricesOf(extrParsed, intrParsed, poseEncodings) ==
    IF extrParsed.kind # "ok" THEN Thrown(extrParsed.error)
    ELSE IF intrParsed.kind # "ok" THEN Thrown(intrParsed.error)
    ELSE camerasOf(reshapeMatrices(extrParsed.data, extrParsed.shape, 3, 4),
                   reshapeMatrices(intrParsed.data, intrParsed.shape, 3, 3),
                   poseEncodings)

\* lines 550-564: Promise.all rejects when one of the three rejects; both
\* buffers are needed, then both are decoded
decodeBuffers(extrBuffer, intrBuffer, poseEncodings) ==
    IF extrBuffer.kind = "rejected" \/ intrBuffer.kind = "rejected"
    THEN Thrown("readFileBuffer rejected")
    ELSE IF poseEncodings.kind = "error" THEN poseEncodings
    ELSE IF extrBuffer.kind = "null" \/ intrBuffer.kind = "null"
    THEN Thrown("Missing camera parameter files")
    ELSE matricesOf(parseNpy(extrBuffer.bytes), parseNpy(intrBuffer.bytes),
                    poseEncodings)

\* lines 550-569 of load: the buffers, the decoding, the records
loadCameras(extrName, intrName, poseName) ==
    decodeBuffers(readFileBuffer(extrName), readFileBuffer(intrName),
                  loadPoseEncodings(poseName))

\* a catch block that keeps the message to itself
errorStateSilent(message) == [data |-> NoData, loading |-> FALSE, error |-> null]

\* the state set in the catch block
errorState(message) == [data |-> NoData, loading |-> FALSE, error |-> message]

\* the state set at the end of the try block
dataState(path, cameraCount, poseEncodings) ==
    [data |-> [kind |-> "scene", path |-> path, cameraCount |-> cameraCount,
               poseEncodings |-> poseEncodings],
     loading |-> FALSE, error |-> null]

\* lines 571-590: the state set with the outcome of the try block
stateAfter(path, result) ==
    IF result.kind = "ok"
    THEN dataState(path, result.cameraCount, result.poseEncodings)
    ELSE errorState(result.error)

\* what the load of `path` sets once its files have arrived
settledState(path, extrName, intrName, poseName) ==
    stateAfter(path, loadCameras(extrName, intrName, poseName))

\* a continuation that sets the state whatever the flag says
writesAlways(cancelled) == TRUE

\* if (!cancelled) setState(..)
writes(cancelled) == ~cancelled

\* how a load ends: settled, or dropped when its flag was set by then
endOf(load) == IF load.cancelled THEN "dropped" ELSE "settled"

HookInit ==
    /\ pc = "hook"
    /\ SceneIdle
    /\ NpyIdle
    /\ scenePath = null /\ loads = <<>> /\ state = INITIAL_STATE
    /\ onDisk = NothingFound /\ writer = 0
    /\ NavHookIdle

\* the loads before the newest one, their flags set by the cleanup
cancelledLoads == [l \in 1..Len(loads) |-> [loads[l] EXCEPT !.cancelled = TRUE]]

\* The effect runs for a path: on mount with any path, afterwards with a
\* path other than the last one.  Lines 596-598 (cleanup), then 526-536.
ChangeScenePath(path) ==
    /\ pc = "hook"
    /\ Len(loads) < MaxLoads
    /\ loads = <<>> \/ path # scenePath
    /\ scenePath' = path
    /\ loads' = Append(cancelledLoads,
                       [path |-> path, cancelled |-> FALSE,
                        stage |-> IF path = null THEN "settled" ELSE "metadata"])
    /\ state' = IF path = null THEN INITIAL_STATE
                ELSE [state EXCEPT !.loading = TRUE, !.error = null]
    /\ writer' = Len(loads) + 1
    /\ onDisk' = NothingFound
    /\ UNCHANGED pc
    /\ UNCHANGED sceneVars
    /\ UNCHANGED npyVars
    /\ UNCHANGED navHookVars

\* the metadata and image list of load l arrive, and its two file names
\* (lines 539-548): the load goes on to read the files
MetadataArrives(l) ==
    /\ pc = "hook"
    /\ loads[l].stage = "metadata"
    /\ loads' = [loads EXCEPT ![l].stage = "files"]
    /\ UNCHANGED <<pc, scenePath, state, onDisk, writer>>
    /\ UNCHANGED sceneVars
    /\ UNCHANGED npyVars
    /\ UNCHANGED navHookVars

\* one of these promises rejects: the catch block (lines 582-590)
MetadataFails(l) ==
    /\ pc = "hook"
    /\ loads[l].stage = "metadata"
    /\ loads' = [loads EXCEPT ![l].stage = endOf(loads[l])]
    /\ IF writes(loads[l].cancelled)
       THEN state' = errorState("getSceneMetadata rejected") /\ writer' = l
       ELSE UNCHANGED <<state, writer>>
    /\ UNCHANGED <<pc, scenePath, onDisk>>
    /\ UNCHANGED sceneVars
    /\ UNCHANGED npyVars
    /\ UNCHANGED navHookVars

\* the reads of load l settle, whatever is on disk by then: lines 550-591
FilesArrive(l) ==
    /\ pc = "hook"
    /\ loads[l].stage = "files"
    /\ loads' = [loads EXCEPT ![l].stage = endOf(loads[l])]
    /\ \E extrName \in ExtrinsicsOnDisk, intrName \in IntrinsicsOnDisk,
          poseName \in PoseOnDisk :
        /\ IF writes(loads[l].cancelled)
           THEN /\ state' = settledState(loads[l].path, extrName, intrName,
                                         poseName)
                /\ writer' = l
           ELSE UNCHANGED <<state, writer>>
        /\ onDisk' = IF loads[l].cancelled THEN onDisk
                     ELSE [kind |-> "read", extrinsics |-> extrName,
                           intrinsics |-> intrName, pose |-> poseName]
    /\ UNCHANGED <<pc, scenePath>>
    /\ UNCHANGED sceneVars
    /\ UNCHANGED npyVars
    /\ UNCHANGED navHookVars

HookNext ==
    \/ \E path \in Paths \cup {null} : ChangeScenePath(path)
    \/ \E l \in 1..Len(loads) : MetadataArrives(l)
    \/ \E l \in 1..Len(loads) : MetadataFails(l)
    \/ \E l \in 1..Len(loads) : FilesArrive(l)

HookSpec == HookInit /\ [][HookNext]_vars

---------------------------------------------------------------------------
(* Claims about useSceneData *)

Mounted == loads # <<>>
AllSettled == \A l \in 1..Len(loads) : loads[l].stage \in {"settled", "dropped"}

\* the state tells of the current path and of nothing else
ReflectsCurrentPath ==
    IF scenePath = null THEN state = INITIAL_STATE
    ELSE /\ ~state.loading
         /\ \/ state.data = NoData /\ state.error # null
            \/ /\ state.data # NoData
               /\ state.data.path = scenePath
               /\ state.error = null

\* C18: last request wins.  Whatever the order of path changes and of the
\* completions of the loads they started, the state is never set by a load
\* of a path that has been left, neither its data nor its error; and once
\* all loads have ended the state tells of the path requested last
C18_LastRequestWins ==
    Mounted =>
        /\ writer = Len(loads)
        /\ AllSettled => ReflectsCurrentPath

\* a load ended after its path had been left for another one, and the load
\* of that one ended with data
C18_Witness ==
    /\ AllSettled
    /\ \E l \in 1..(Len(loads) - 1) :
        /\ loads[l].stage = "dropped"
        /\ loads[l].path \notin {null, scenePath}
    /\ state.data # NoData
    /\ state.data.path = scenePath

\* the same with the path left for none
C18_WitnessUnselected ==
    /\ AllSettled
    /\ \E l \in 1..(Len(loads) - 1) : loads[l].stage = "dropped"
    /\ scenePath = null
    /\ state = INITIAL_STATE

\* the current load has read the disk and one of the two required files
\* was absent, unreadable or could not be decoded
RequiredArtifactUnusable ==
    /\ onDisk # NothingFound
    /\ onDisk.extrinsics \in Unusable \/ onDisk.intrinsics \in Unusable

\* C20: when camera_extrinsics or camera_intrinsics is absent, unreadable or
\* undecodable the load is aborted: unless a newer request has taken over,
\* the hook ends with data = null, loading = false and one message in error,
\* and shows no camera list built from the other file
C20_RequiredArtifacts ==
    RequiredArtifactUnusable =>
        /\ state.data = NoData
        /\ ~state.loading
        /\ state.error # null

\* the extrinsics were absent while the intrinsics were in place
C20_Witness ==
    /\ onDisk # NothingFound
    /\ onDisk.extrinsics = "absent" /\ onDisk.intrinsics = "intrinsics"
    /\ state = errorState("Missing camera parameter files")

\* the intrinsics did not start with the signature
C20_WitnessUndecodable ==
    /\ onDisk # NothingFound
    /\ onDisk.extrinsics = "extrinsics" /\ onDisk.intrinsics = "corrupt"
    /\ state = errorState("Invalid NPY file signature")

\* the extrinsics were decoded to a shape of one dimension
C20_WitnessFlat ==
    /\ onDisk # NothingFound
    /\ onDisk.extrinsics = "flat" /\ onDisk.intrinsics = "intrinsics"
    /\ state = errorState("Unexpected NPY shape for matrix data")

\* both files in place: one camera, the lesser of the two record counts
C20_WitnessLoaded ==
    /\ onDisk # NothingFound
    /\ onDisk.extrinsics = "extrinsics" /\ onDisk.intrinsics = "intrinsics"
    /\ state.data # NoData
    /\ state.data.path = scenePath /\ state.data.cameraCount = 1

\* C26: once a load for another scene path has started, the data of the
\* state is null or the data built for the path now requested, also while
\* loading is true and after the load has failed; it is never the data of
\* the path requested before
C26_PreviousDiscarded ==
    (Mounted /\ state.data # NoData) => state.data.path = scenePath

\* the part of C26 that holds: the end of the new load, with data or with
\* an error, leaves nothing of the scene loaded before
C26_ReplacedAtTheEnd ==
    (Mounted /\ ~state.loading /\ state.data # NoData) =>
        state.data.path = scenePath

\* the load of another path is under way and the state still holds the
\* cameras of the scene loaded before
C26_WitnessStale ==
    /\ Mounted
    /\ scenePath \in Paths
    /\ state.loading
    /\ state.data # NoData
    /\ state.data.path \in Paths \ {scenePath}

\* the current load has read the disk and found both required files
RequiredArtifactsLoaded ==
    /\ onDisk # NothingFound
    /\ onDisk.extrinsics = "extrinsics" /\ onDisk.intrinsics = "intrinsics"

\* the records a file of float32 records of `size` elements holds
recordsIn(name, size) == Files[name].payload \div (4 * size)

C21_WitnessNoBuffer ==
    /\ RequiredArtifactsLoaded
    /\ onDisk.pose = "locked"
    /\ state.data # NoData

\* a pose file of two rows of two values: two vectors of two elements
C21_WitnessVectors ==
    /\ RequiredArtifactsLoaded
    /\ onDisk.pose = "poses"
    /\ state.data # NoData
    /\ Len(state.data.poseEncodings) = 2
    /\ \A i \in 1..2 : Len(state.data.poseEncodings[i]) = 2

---------------------------------------------------------------------------
(* The pose file on its own: files that parseNpy decodes, of every shape a
   producer may write, handed to loadPoseEncodings *)

ShapeNone == Shape0d
ShapeEmptyRow == Text(<<"(", "0", ",", ")">>)
ShapeNoColumns == Text(<<"(", "2", ",", " ", "0", ")">>)
ShapeTwoByTwo == Text(<<"(", "2", ",", " ", "2", ")">>)
ShapeStack == Text(<<"(", "2", ",", " ", "1", ",", " ", "3", ")">>)

PoseShapeFields ==
    {ShapeNone, ShapeEmptyRow, ShapeNoColumns, ShapeTwoByTwo, ShapeStack,
     Shape12, Shape34}

\* payload sizes in bytes: none, one float, one double, four floats, six
\* floats, twelve floats
PosePayloads == {0, 4, 8, 16, 24, 48}

PoseLayouts ==
    {LayoutOf(MagicBytes, 1, Quoted(d), FalseText, sh, FALSE, 0, n, Whole) :
        d \in {Float32Descr, Float64Descr}, sh \in PoseShapeFields,
        n \in PosePayloads}

PoseInit ==
    /\ pc = "file"
    /\ SceneIdle
    /\ HooksIdle
    /\ npyArray = NoArray
    /\ buffer = <<>>
    /\ parsed = NotParsed
    /\ reshaped = NotParsed
    /\ poseResult = NotParsed
    /\ layout \in PoseLayouts

\* lines 504-519 on the bytes read: parseNpy, then the loop over the vectors
LoadPoseFile ==
    /\ pc = "encoded"
    /\ parsed' = parseNpy(buffer)
    /\ poseResult' = posesOf(parsed')
    /\ pc' = "poses"
    /\ UNCHANGED <<npyArray, buffer, layout, reshaped>>
    /\ UNCHANGED sceneVars
    /\ UNCHANGED hookVars
    /\ UNCHANGED navHookVars

PoseNext == ReadFile \/ LoadPoseFile

PoseSpec == PoseInit /\ [][PoseNext]_vars

PosesLoaded == pc = "poses"

\* the rows of a decoded shape: the product of all entries but the last
RowsOf(shape) ==
    IF shape = <<>> THEN One ELSE shapeProduct(SubSeq(shape, 1, Len(shape) - 1))

\* the decoded data fill the decoded shape
FillsShape == shapeProduct(parsed.shape) = Num(Len(parsed.data))

\* C30: for every pose file parseNpy decodes, loadPoseEncodings returns,
\* and what it returns for data that fill the shape is one vector of the
\* length of the last dimension per row; a file with the shape () or with
\* a last dimension of 0 is no exception
C30_PosesTerminate ==
    (PosesLoaded /\ parsed.kind = "ok") =>
        /\ poseResult.kind = "ok"
        /\ (FillsShape /\ parsed.shape # <<>>) =>
            /\ Num(Len(poseResult.vectors)) = RowsOf(parsed.shape)
            /\ \A i \in 1..Len(poseResult.vectors) :
                Num(Len(poseResult.vectors[i])) = strideOf(parsed.shape)

\* the part of C30 that holds: with a last dimension above 0, the loop ends
\* and data that fill the shape come back as one vector per row
C30_RowsOfVectors ==
    (PosesLoaded /\ parsed.kind = "ok" /\ FLt(Zero, strideOf(parsed.shape))) =>
        /\ poseResult.kind = "ok"
        /\ FillsShape =>
            /\ Num(Len(poseResult.vectors)) = RowsOf(parsed.shape)
            /\ \A i \in 1..Len(poseResult.vectors) :
                Num(Len(poseResult.vectors[i])) = strideOf(parsed.shape)

\* shape (): the single element of the file over a stride of 0, and a loop
\* that has no end
C30_WitnessEndless ==
    /\ PosesLoaded
    /\ layout.shape = ShapeNone
    /\ parsed.kind = "ok" /\ parsed.shape = <<>> /\ Len(parsed.data) = 1
    /\ poseResult.kind = "endless"

\* shape (2, 0) and no data: no vector at all for the two rows
C30_WitnessNoColumns ==
    /\ PosesLoaded
    /\ layout.shape = ShapeNoColumns
    /\ parsed.kind = "ok" /\ parsed.shape = <<Num(2), Zero>> /\ parsed.data = <<>>
    /\ poseResult = Vectors(<<>>)

\* shape (2, 2) and four floats: two vectors of two
C30_WitnessRows ==
    /\ PosesLoaded
    /\ layout.shape = ShapeTwoByTwo
    /\ FillsShape
    /\ Len(poseResult.vectors) = 2

---------------------------------------------------------------------------
(* useNavGraph (hooks/useNavGraph.ts).  A call of the hook returns the state
   as it stands; the effect runs after a call whose sceneData differs from
   the one of the call before, and before the next call.  compute() has no
   await, so the whole effect is one step and its setState calls take effect
   together. *)

\* the cameras of a scene: n cameras one unit apart along the x axis, all
\* turned by R
LineCameras(n, R) ==
    buildSceneCameras(
        [i \in 1..n |->
            Extrinsic(R, TranslationAt(R, LinePlace(R, Vec(0, 0, 0), i - 1)))],
        [i \in 1..n |-> Pinhole], NAV_GRAPH_RADIUS, NAV_GRAPH_NEIGHBORS)

SceneOf(path, cams) == [kind |-> "scene", path |-> path, cameras |-> cams]

MaxSceneCams == 5

\* the scenes a caller may pass: lines of 2..MaxSceneCams cameras facing
\* forward, backward, or rolled by a quarter turn
SceneDatas ==
    {SceneOf(<<n, R>>, LineCameras(n, R)) :
        n \in 2..MaxSceneCams, R \in {Identity, HalfTurn, Roll}}

\* an entry of the cameras array that is no camera: reading its index at
\* line 160 of lib/navGraph is a TypeError
NoCamera == [kind |-> "undefined"]
HoleScene == SceneOf(<<1, Identity>>, <<NoCamera>>)
BuildThrew == [kind |-> "threw"]

Throws(scene) == \E k \in 1..Len(scene.cameras) : scene.cameras[k] = NoCamera

\* buildNavGraph(sceneData) inside the try block: the graph, or the throw
computeGraph(scene) ==
    IF Throws(scene) THEN BuildThrew
    ELSE [kind |-> "graph", graph |-> buildNavGraph(scene.cameras)]

\* buildNavGraph is a function of its argument: its outcome for each scene a
\* caller may pass, worked out once
GraphsOfScenes == [scene \in SceneDatas \cup {HoleScene} |-> computeGraph(scene)]

GraphOf(scene) == GraphsOfScenes[scene]

\* mutant of afterCompute: no catch and no finally
afterComputeUncaught(prev, outcome) ==
    IF outcome = BuildThrew
    THEN [navGraph |-> prev.navGraph, ready |-> FALSE]
    ELSE [navGraph |-> outcome, ready |-> TRUE]

\* lines 24-36: setReady(false), then setNavGraph(graph) of the try block or
\* setNavGraph(null) of the catch block, then setReady(true) of finally
afterCompute(prev, outcome) ==
    [navGraph |-> IF outcome = BuildThrew THEN NoGraph ELSE outcome, ready |-> TRUE]

NavHookInit ==
    /\ pc = "navhook"
    /\ SceneIdle
    /\ NpyIdle
    /\ scenePath = null /\ loads = <<>> /\ state = INITIAL_STATE
    /\ onDisk = NothingFound /\ writer = 0
    /\ NavHookIdle

\* useNavGraph(sd) is called: line 12, and the return of line 44
CallUseNavGraph(sd) ==
    /\ pc = "navhook"
    /\ ~effectDue
    /\ sceneData' = sd
    /\ effectDue' = (observed = NotCalled \/ sd # sceneData)
    /\ observed' = [sceneData |-> sd, navGraph |-> navState.navGraph,
                    ready |-> navState.ready]
    /\ UNCHANGED <<pc, navState>>
    /\ UNCHANGED sceneVars
    /\ UNCHANGED npyVars
    /\ UNCHANGED hookVars

\* the effect of lines 16-42
RunEffect ==
    /\ pc = "navhook"
    /\ effectDue
    /\ navState' = IF sceneData = NoData
                   THEN [navGraph |-> NoGraph, ready |-> FALSE]
                   ELSE afterCompute(navState, GraphOf(sceneData))
    /\ effectDue' = FALSE
    /\ UNCHANGED <<pc, sceneData, observed>>
    /\ UNCHANGED sceneVars
    /\ UNCHANGED npyVars
    /\ UNCHANGED hookVars

NavHookNext ==
    \/ \E sd \in SceneDatas \cup {HoleScene, NoData} : CallUseNavGraph(sd)
    \/ RunEffect

NavHookSpec == NavHookInit /\ [][NavHookNext]_vars

\* React runs a due effect before the component renders again
NavHookLiveSpec == NavHookSpec /\ WF_vars(RunEffect)

---------------------------------------------------------------------------
(* Claims about useNavGraph *)

Called == observed # NotCalled

\* C19: whatever a caller of useNavGraph gets to see, ready = true means that
\* navGraph is the graph of the sceneData of that call, never the graph of a
\* sceneData passed before; with sceneData = null the hook returns
\* navGraph = null and ready = false
C19_ReadyMeansCurrent ==
    Called =>
        IF observed.sceneData = NoData
        THEN observed.navGraph = NoGraph /\ ~observed.ready
        ELSE (observed.ready /\ ~Throws(observed.sceneData)) =>
                observed.navGraph = GraphOf(observed.sceneData)

\* what holds of the hook's state: once the effect of a call has run, the
\* state is the graph of the sceneData of that call with ready = true, or
\* null with ready = false for null
C19_StateAfterEffect ==
    (Called /\ ~effectDue) =>
        IF sceneData = NoData
        THEN navState = [navGraph |-> NoGraph, ready |-> FALSE]
        ELSE ~Throws(sceneData) =>
                navState = [navGraph |-> GraphOf(sceneData), ready |-> TRUE]

\* what a call returns while its effect is due: the state left by the call
\* before
C19_StaleReturn ==
    /\ Called /\ effectDue
    /\ observed.sceneData # NoData
    /\ observed.ready
    /\ ~Throws(observed.sceneData)
    /\ observed.navGraph # GraphOf(observed.sceneData)

\* a build is under way: the hook was called with a scene and its effect is
\* due
BuildDue == effectDue /\ sceneData # NoData
\* the build of the last call has ended
BuildEnded == ~effectDue /\ sceneData # NoData

\* C28: every build attempt of useNavGraph ends with ready = true, whether
\* buildNavGraph returns or throws; after a throw the hook holds
\* navGraph = null and ready = true, not the graph it held before, and it
\* goes on serving calls
C28_BuildEndsReady ==
    /\ [](BuildEnded =>
            /\ navState.ready
            /\ Throws(sceneData) => navState.navGraph = NoGraph)
    /\ (BuildDue ~> (BuildEnded /\ navState.ready))

\* the hook held the graph of a scene, was called with a scene on which
\* buildNavGraph throws, and its effect has run
C28_Witness ==
    /\ BuildEnded
    /\ Throws(sceneData)
    /\ observed.sceneData = sceneData
    /\ observed.navGraph # NoGraph
    /\ navState = [navGraph |-> NoGraph, ready |-> TRUE]

\* the build of a scene of cameras has returned its graph
C28_WitnessReturned ==
    /\ BuildEnded
    /\ ~Throws(sceneData)
    /\ navState.ready
    /\ navState.navGraph = GraphOf(sceneData)


---------------------------------------------------------------------------
(* The published scene: cameras built from unequal numbers of records and
   from intrinsics of every kind, then handed to buildNavGraph and to
   projectWorldPointToImage any number of times in any order *)

MaxFrames == 2

\* with R = I: cameras at the origin, one step to its right, one to its left
FrameExtrinsics ==
    { Extrinsic(Identity, t) : t \in {Vec(0, 0, 0), Vec(-1, 0, 0), Vec(1, 0, 0)} }

NaNFocalX == <<<<NaN, Zero, Num(50)>>, Vec(0, 100, 50), Vec(0, 0, 1)>>
InfFocalY == <<Vec(100, 0, 50), <<Zero, PosInf, Num(50)>>, Vec(0, 0, 1)>>
ZeroFocalX == <<Vec(0, 0, 50), Vec(0, 100, 50), Vec(0, 0, 1)>>
NegativeFocalY == <<Vec(100, 0, 50), Vec(0, -100, 50), Vec(0, 0, 1)>>
Skewed == <<Vec(100, 2, 50), Vec(0, 100, 50), Vec(0, 0, 1)>>

FrameIntrinsics ==
    { Pinhole, NaNFocalX, InfFocalY, ZeroFocalX, NegativeFocalY, Skewed }

\* points ahead of every camera, on and off the axis
FramePoints == { Vec(0, 0, 3), Vec(1, 2, 3), Vec(-2, 0, 1) }

FrameInit ==
    /\ pc = "loaded"
    /\ \E ne \in 1..MaxFrames, ni \in 1..MaxFrames :
        /\ extrinsicsMatrices \in [1..ne -> FrameExtrinsics]
        /\ intrinsicsMatrices \in [1..ni -> FrameIntrinsics]
    /\ radius = NAV_GRAPH_RADIUS
    /\ maxNeighbors = NAV_GRAPH_NEIGHBORS
    /\ cameras = <<>>
    /\ navGraph = <<>>
    /\ worldPoint = NoPoint
    /\ projection = NoProjection
    /\ ray = NoRay
    /\ NpyIdle
    /\ HooksIdle

\* a graph build that empties the pools it has read
CallBuildNavGraphConsuming ==
    /\ pc = "cameras"
    /\ navGraph' = buildNavGraph(cameras)
    /\ cameras' = [k \in 1..Len(cameras) |->
                      [cameras[k] EXCEPT !.navigableNeighbors = <<>>]]
    /\ UNCHANGED <<pc, extrinsicsMatrices, intrinsicsMatrices, radius,
                   maxNeighbors, worldPoint, projection, ray>>
    /\ UNCHANGED npyVars
    /\ UNCHANGED hookVars
    /\ UNCHANGED navHookVars

\* buildNavGraph(sceneData) on the published cameras, at any time: it reads
\* the cameras and fills an object of its own
CallBuildNavGraph ==
    /\ pc = "cameras"
    /\ navGraph' = buildNavGraph(cameras)
    /\ UNCHANGED <<pc, extrinsicsMatrices, intrinsicsMatrices, radius,
                   maxNeighbors, cameras, worldPoint, projection, ray>>
    /\ UNCHANGED npyVars
    /\ UNCHANGED hookVars
    /\ UNCHANGED navHookVars

\* projectWorldPointToImage(camera.extrinsicsW2C, camera.intrinsics, p) on a
\* published camera, at any time: rotation and translation are copies
CallProject ==
    /\ pc = "cameras"
    /\ \E c \in 1..Len(cameras), p \in FramePoints :
        /\ worldPoint' = [camera |-> cameras[c].index, point |-> p]
        /\ projection' = projectWorldPointToImage(cameras[c].extrinsicsW2C,
                                                  cameras[c].intrinsics, p)
    /\ UNCHANGED <<pc, extrinsicsMatrices, intrinsicsMatrices, radius,
                   maxNeighbors, cameras, navGraph, ray>>
    /\ UNCHANGED npyVars
    /\ UNCHANGED hookVars
    /\ UNCHANGED navHookVars

FrameNext == BuildSceneCameras \/ CallBuildNavGraph \/ CallProject

FrameSpec == FrameInit /\ [][FrameNext]_vars

---------------------------------------------------------------------------
(* Claims about the published cameras *)

Published == pc = "cameras"
GraphReturned == Published /\ navGraph # <<>>
ProjectedThrough(idx) ==
    Published /\ projection # NoProjection /\ worldPoint.camera = idx

\* fx = K[0][0] or fy = K[1][1] is not finite
NonFiniteFocal(idx) ==
    \/ ~IsFinite(Cam(idx).intrinsics[1][1])
    \/ ~IsFinite(Cam(idx).intrinsics[2][2])

\* the camera has no side populated and stands on no side of another one
OffTheGraph(idx) ==
    /\ navGraph[idx].left = Undefined /\ navGraph[idx].right = Undefined
    /\ \A a \in CamIdx : navGraph[a].left # idx /\ navGraph[a].right # idx

\* C22: a camera with a non-finite fx or fy is kept in the camera list but
\* gets no left or right neighbour, is nobody's left or right neighbour, and
\* every projection through it returns none
C22_NonFiniteFocalUnusable ==
    Published =>
        /\ Len(cameras) = MinInt(Len(extrinsicsMatrices), Len(intrinsicsMatrices))
        /\ \A idx \in CamIdx : NonFiniteFocal(idx) =>
              /\ GraphReturned => OffTheGraph(idx)
              /\ ProjectedThrough(idx) => projection = ProjNull

\* the part of C22 the code keeps: the camera is kept, and projection through
\* it returns none
C22_KeptAndNotProjected ==
    Published =>
        /\ Len(cameras) = MinInt(Len(extrinsicsMatrices), Len(intrinsicsMatrices))
        /\ \A idx \in CamIdx : (NonFiniteFocal(idx) /\ ProjectedThrough(idx))
              => projection = ProjNull

\* what the code does with it in the graph: the camera with fx = NaN has a
\* neighbour and is that neighbour's neighbour
C22_NonFiniteFocalNavigable ==
    /\ GraphReturned
    /\ \E idx \in CamIdx, a \in CamIdx :
        /\ NonFiniteFocal(idx) /\ a # idx
        /\ navGraph[idx].right = a
        /\ navGraph[a].left = idx

\* camera idx is the record pair at its place, as decoded
FromRecords(idx) ==
    /\ Cam(idx).index = idx
    /\ Cam(idx).intrinsics = intrinsicsMatrices[idx + 1]
    /\ Cam(idx).extrinsicsW2C = extrinsicsMatrices[idx + 1]
    /\ \A r \in 1..3, c \in 1..3 :
        Cam(idx).rotationW2C[r][c] = extrinsicsMatrices[idx + 1][r][c]

C23_WitnessFewerIntrinsics ==
    /\ Published
    /\ Len(extrinsicsMatrices) = 2 /\ Len(intrinsicsMatrices) = 1
    /\ Len(cameras) = 1
    /\ cameras[1].intrinsics = ZeroFocalX

===========================================================================
